---- MODULE Spec2Model ----
(***************************************************************************)
(* Production tracking, inventory ledger and sales of LSP_Apperal.         *)
(*                                                                         *)
(* The document store is modelled as four collections, each a function    *)
(* from the ids of the documents that exist to their fields:              *)
(*   designs     design_id   -> size_distribution (list of size/quantity) *)
(*   tracking    tracking_id -> production tracking record                *)
(*   inventory   design_id   -> [sizes, total_available]                  *)
(*   sales       sale_id     -> sale record                               *)
(* Timestamps are abstracted to NULL / TS (cleared / set); created_at and  *)
(* updated_at, which no handler reads, are left out.                      *)
(*                                                                         *)
(* Every handler is an operator from the store to an outcome              *)
(* [status, <collections it may write>], computed in the order of the     *)
(* code's checks and writes; status 200 is a normal return and any other  *)
(* value is the status code of the HTTPException that ended the call.     *)
(* The actions of Spec run one whole call at a time: each applies the      *)
(* outcome of its handler to the store, whatever status the call ends      *)
(* with.  The handlers are plain functions, which the framework runs on    *)
(* the threads of a pool: SpecConcurrent runs calls one store access at a  *)
(* time, calls holding for each call in progress its position and the      *)
(* documents it has read.                                                  *)
(***************************************************************************)
EXTENDS Integers, Sequences, FiniteSets, TLC

VARIABLES designs, tracking, inventory, sales, calls, produced

vars == <<designs, tracking, inventory, sales, calls, produced>>

---------------------------------------------------------------------------
(* Bounds of the model                                                     *)

\* a credit is not attempted when it would lift a size above MaxStock
MaxStock == 3
\* number of sale documents that can exist at once
MaxSales == 1

---------------------------------------------------------------------------
(* Values                                                                  *)

NULL == "null"
TS == "ts"
NONE == ""

CUTTING == "cutting"
SEWING == "sewing"
IRONING == "ironing"

PENDING == "pending"
IN_PROGRESS == "in_progress"
COMPLETED == "completed"

LEVEL_1 == "level_1"
\* a required level that is the level of every caller
level_of_every_caller == LEVEL_1

LEVEL_2 == "level_2"

CASH == "cash"
CREDIT == "credit"

STAGE_SEQUENCE == <<CUTTING, SEWING, IRONING>>

ProductionStage == {CUTTING, SEWING, IRONING}
ProductionStatus == {IN_PROGRESS, COMPLETED, PENDING}
AccessLevel == {LEVEL_1, LEVEL_2}

DesignIds == {"d1"}
TrackingIds == {"t1", "t2"}
SaleIds == 1..MaxSales

SizeInfo(size, quantity) == [size |-> size, quantity |-> quantity]

\* size_distribution values the design catalog can hold for a design: the
\* quantities are numbers of pieces; an entry can lack a size and a size can
\* be listed twice
SizeDistributions ==
    { <<SizeInfo("S", 2), SizeInfo("M", 3)>>,
      <<SizeInfo("S", 1), SizeInfo("", 2), SizeInfo("S", 1)>>,
      <<>> }

---------------------------------------------------------------------------
(* Dictionaries                                                            *)

\* dict.get(key, default)
Get(dict, key, default) == IF key \in DOMAIN dict THEN dict[key] ELSE default

\* dict[key] = value
Put(dict, key, value) ==
    [k \in DOMAIN dict \cup {key} |-> IF k = key THEN value ELSE dict[k]]

RECURSIVE SumOver(_, _)
SumOver(dict, keys) ==
    IF keys = {} THEN 0
    ELSE LET k == CHOOSE x \in keys : TRUE
         IN dict[k] + SumOver(dict, keys \ {k})

\* sum(dict.values())
SumValues(dict) == SumOver(dict, DOMAIN dict)

EmptyDict == [k \in {} |-> 0]

---------------------------------------------------------------------------
(* Design catalog                                                          *)

\* _get_design_size_map, the loop over size_distribution: entries without a
\* size are skipped, quantities of a repeated size are added up
RECURSIVE size_map_of(_, _)
size_map_of(distribution, size_map) ==
    IF distribution = <<>> THEN size_map
    ELSE LET entry == Head(distribution)
         IN size_map_of(Tail(distribution),
                IF entry.size = NONE THEN size_map
                ELSE Put(size_map, entry.size,
                         Get(size_map, entry.size, 0) + entry.quantity))

\* _get_design_size_map for a design that exists
_get_design_size_map(design_doc) == size_map_of(design_doc.size_distribution, EmptyDict)

---------------------------------------------------------------------------
(* Inventory ledger                                                        *)

\* an inventory document whose total is not stored
InventoryDoc_without_total(sizes, total_available) ==
    [sizes |-> sizes, total_available |-> 0]

InventoryDoc(sizes, total_available) ==
    [sizes |-> sizes, total_available |-> total_available]

\* a first loop that overwrites the quantity held instead of adding to it
new_qty_overwrites(current_sizes, size_map, multiplier, size) ==
    size_map[size] * multiplier

\* _adjust_inventory, the first loop: the new quantity of a size of the size map
new_qty(current_sizes, size_map, multiplier, size) ==
    Get(current_sizes, size, 0) + size_map[size] * multiplier

\* a first loop without its check
size_never_below_zero(current_sizes, size_map, multiplier) == FALSE

\* _adjust_inventory, the first loop's check: TRUE when it raises
size_below_zero(current_sizes, size_map, multiplier) ==
    \E size \in DOMAIN size_map : new_qty(current_sizes, size_map, multiplier, size) < 0

\* the first loop without the second: only the sizes of the size map are written
updated_sizes_of_map_only(current_sizes, size_map, multiplier) ==
    [size \in DOMAIN size_map |-> new_qty(current_sizes, size_map, multiplier, size)]

\* both loops, the second writing 0 for the sizes that are not in the size map
updated_sizes_clears_others(current_sizes, size_map, multiplier) ==
    [size \in DOMAIN size_map \cup DOMAIN current_sizes |->
        IF size \in DOMAIN size_map
          THEN new_qty(current_sizes, size_map, multiplier, size)
          ELSE 0]

\* _adjust_inventory, both loops: the sizes written when nothing raises; the
\* sizes that are not in the size map keep their quantity
updated_sizes(current_sizes, size_map, multiplier) ==
    [size \in DOMAIN size_map \cup DOMAIN current_sizes |->
        IF size \in DOMAIN size_map
          THEN new_qty(current_sizes, size_map, multiplier, size)
          ELSE current_sizes[size]]

\* _adjust_inventory: outcome [status, inventory] of a credit (multiplier 1)
\* or a debit (multiplier -1) by the design's size map
_adjust_inventory(dsg, inv, design_id, multiplier) ==
    IF multiplier = 0 THEN [status |-> 200, inventory |-> inv]
    ELSE IF design_id \notin DOMAIN dsg THEN [status |-> 404, inventory |-> inv]
    ELSE
      LET size_map == _get_design_size_map(dsg[design_id])
          total_delta == SumValues(size_map) * multiplier
      IN
      IF DOMAIN size_map = {} THEN [status |-> 200, inventory |-> inv]
      ELSE IF design_id \in DOMAIN inv THEN
        LET data == inv[design_id]
            new_total == data.total_available + total_delta
        IN
        IF size_below_zero(data.sizes, size_map, multiplier)
          THEN [status |-> 400, inventory |-> inv]
        ELSE IF new_total < 0
          THEN [status |-> 400, inventory |-> inv]
        ELSE [status |-> 200,
              inventory |-> [inv EXCEPT ![design_id] =
                  InventoryDoc(updated_sizes(data.sizes, size_map, multiplier), new_total)]]
      ELSE
        IF multiplier < 0 THEN [status |-> 400, inventory |-> inv]
        ELSE [status |-> 200,
              inventory |-> Put(inv, design_id,
                                InventoryDoc(size_map, SumValues(size_map)))]

---------------------------------------------------------------------------
(* Production tracking                                                     *)

\* a stage entry that never gets its arrival time
StageState_without_arrival(status, arrived_at, completed_at) ==
    [status |-> status, arrived_at |-> NULL, completed_at |-> completed_at]

StageState(status, arrived_at, completed_at) ==
    [status |-> status, arrived_at |-> arrived_at, completed_at |-> completed_at]

\* a new record whose cutting stage is stamped as completed already
_default_stage_payload_stamped ==
    [cutting |-> StageState(IN_PROGRESS, TS, TS),
     sewing  |-> StageState(PENDING, NULL, NULL),
     ironing |-> StageState(PENDING, NULL, NULL)]

_default_stage_payload ==
    [cutting |-> StageState(IN_PROGRESS, TS, NULL),
     sewing  |-> StageState(PENDING, NULL, NULL),
     ironing |-> StageState(PENDING, NULL, NULL)]

\* ProductionOperationRequest.validate_required_fields
ProductionRequestValid(action, tracking_id, design_id) ==
    /\ action \in {"COMPLETE_CUTTING", "START_SEWING", "COMPLETE_SEWING",
                   "START_IRONING", "COMPLETE_IRONING", "DELETE"}
         => tracking_id # NONE
    /\ action = "START_CUTTING" => (design_id # NONE \/ tracking_id # NONE)

\* _get_tracking_by_design: the documents the query matches; limit(1) returns
\* one of them, or None when there is none
_get_tracking_by_design(trk, design_id) ==
    {id \in DOMAIN trk : trk[id].design_id = design_id}

\* the id of a new tracking document; ids are opaque, any unused one will do
NewTrackingId(trk) == CHOOSE id \in TrackingIds \ DOMAIN trk : TRUE

ProductionOutcome(status, trk, inv) ==
    [status |-> status, tracking |-> trk, inventory |-> inv]

\* START_CUTTING; existing is the document _get_tracking_by_design returned
\* (NONE when it returned None)
start_cutting(dsg, trk, inv, tracking_id, design_id, existing) ==
    IF ~ProductionRequestValid("START_CUTTING", tracking_id, design_id)
      THEN ProductionOutcome(422, trk, inv)
    ELSE IF tracking_id # NONE /\ tracking_id \notin DOMAIN trk
      THEN ProductionOutcome(404, trk, inv)
    ELSE IF tracking_id = NONE /\ design_id \notin DOMAIN dsg
      THEN ProductionOutcome(404, trk, inv)
    ELSE
      LET doc_ref == IF tracking_id # NONE THEN tracking_id ELSE existing
      IN
      IF doc_ref # NONE THEN
        ProductionOutcome(200,
          [trk EXCEPT ![doc_ref].stage = CUTTING,
                      ![doc_ref].status = IN_PROGRESS,
                      ![doc_ref].arrived_at = TS,
                      ![doc_ref].completed_at = NULL,
                      ![doc_ref].stages.cutting = StageState(IN_PROGRESS, TS, NULL),
                      ![doc_ref].stages.sewing = StageState(PENDING, NULL, NULL),
                      ![doc_ref].stages.ironing = StageState(PENDING, NULL, NULL)],
          inv)
      ELSE
        ProductionOutcome(200,
          Put(trk, NewTrackingId(trk),
              [design_id |-> design_id,
               stage |-> CUTTING,
               status |-> IN_PROGRESS,
               stages |-> _default_stage_payload,
               arrived_at |-> TS,
               completed_at |-> NULL]),
          inv)

\* a completion of cutting that does not look at the overview status
complete_cutting_at_any_status(trk, inv, tracking_id) ==
    IF tracking_id \notin DOMAIN trk THEN ProductionOutcome(404, trk, inv)
    ELSE IF trk[tracking_id].stage # CUTTING THEN ProductionOutcome(400, trk, inv)
    ELSE
      ProductionOutcome(200,
        [trk EXCEPT ![tracking_id].stage = SEWING,
                    ![tracking_id].status = PENDING,
                    ![tracking_id].arrived_at = NULL,
                    ![tracking_id].completed_at = NULL,
                    ![tracking_id].stages.cutting.status = COMPLETED,
                    ![tracking_id].stages.cutting.completed_at = TS,
                    ![tracking_id].stages.sewing = StageState(PENDING, NULL, NULL)],
        inv)

\* COMPLETE_CUTTING
complete_cutting(trk, inv, tracking_id) ==
    IF ~ProductionRequestValid("COMPLETE_CUTTING", tracking_id, NONE)
      THEN ProductionOutcome(422, trk, inv)
    ELSE IF tracking_id \notin DOMAIN trk THEN ProductionOutcome(404, trk, inv)
    ELSE IF trk[tracking_id].stage # CUTTING THEN ProductionOutcome(400, trk, inv)
    ELSE IF trk[tracking_id].status # IN_PROGRESS THEN ProductionOutcome(400, trk, inv)
    ELSE
      ProductionOutcome(200,
        [trk EXCEPT ![tracking_id].stage = SEWING,
                    ![tracking_id].status = PENDING,
                    ![tracking_id].arrived_at = NULL,
                    ![tracking_id].completed_at = NULL,
                    ![tracking_id].stages.cutting.status = COMPLETED,
                    ![tracking_id].stages.cutting.completed_at = TS,
                    ![tracking_id].stages.sewing = StageState(PENDING, NULL, NULL)],
        inv)

\* a check of the cutting stage that never raises
cutting_never_checked(stage_data) == FALSE

\* _ensure_cutting_completed: TRUE when it raises
_ensure_cutting_completed(stage_data) == stage_data.cutting.status # COMPLETED

\* a check of the sewing stage that never raises
sewing_never_checked(stage_data) == FALSE

\* _ensure_sewing_completed: TRUE when it raises
_ensure_sewing_completed(stage_data) == stage_data.sewing.status # COMPLETED

\* a start of sewing that does not look at the overview
start_sewing_at_any_overview(trk, inv, tracking_id) ==
    IF tracking_id \notin DOMAIN trk THEN ProductionOutcome(404, trk, inv)
    ELSE IF _ensure_cutting_completed(trk[tracking_id].stages)
      THEN ProductionOutcome(400, trk, inv)
    ELSE IF trk[tracking_id].stages.sewing.status # PENDING
      THEN ProductionOutcome(400, trk, inv)
    ELSE
      ProductionOutcome(200,
        [trk EXCEPT ![tracking_id].stage = SEWING,
                    ![tracking_id].status = IN_PROGRESS,
                    ![tracking_id].arrived_at = TS,
                    ![tracking_id].completed_at = NULL,
                    ![tracking_id].stages.sewing.status = IN_PROGRESS,
                    ![tracking_id].stages.sewing.arrived_at = TS],
        inv)

\* START_SEWING
start_sewing(trk, inv, tracking_id) ==
    IF ~ProductionRequestValid("START_SEWING", tracking_id, NONE)
      THEN ProductionOutcome(422, trk, inv)
    ELSE IF tracking_id \notin DOMAIN trk THEN ProductionOutcome(404, trk, inv)
    ELSE
      LET tracking_data == trk[tracking_id]
          stage_data == tracking_data.stages
          current_stage == tracking_data.stage
          current_status == tracking_data.status
          allowed_state ==
              \/ current_stage = SEWING /\ current_status \in {PENDING, COMPLETED}
              \/ current_stage = CUTTING /\ current_status = COMPLETED
      IN
      IF _ensure_cutting_completed(stage_data) THEN ProductionOutcome(400, trk, inv)
      ELSE IF stage_data.sewing.status # PENDING \/ ~allowed_state
        THEN ProductionOutcome(400, trk, inv)
      ELSE
        ProductionOutcome(200,
          [trk EXCEPT ![tracking_id].stage = SEWING,
                      ![tracking_id].status = IN_PROGRESS,
                      ![tracking_id].arrived_at = TS,
                      ![tracking_id].completed_at = NULL,
                      ![tracking_id].stages.sewing.status = IN_PROGRESS,
                      ![tracking_id].stages.sewing.arrived_at = TS],
          inv)

\* COMPLETE_SEWING
complete_sewing(trk, inv, tracking_id) ==
    IF ~ProductionRequestValid("COMPLETE_SEWING", tracking_id, NONE)
      THEN ProductionOutcome(422, trk, inv)
    ELSE IF tracking_id \notin DOMAIN trk THEN ProductionOutcome(404, trk, inv)
    ELSE IF trk[tracking_id].stage # SEWING THEN ProductionOutcome(400, trk, inv)
    ELSE IF trk[tracking_id].status # IN_PROGRESS THEN ProductionOutcome(400, trk, inv)
    ELSE
      ProductionOutcome(200,
        [trk EXCEPT ![tracking_id].stage = IRONING,
                    ![tracking_id].status = PENDING,
                    ![tracking_id].arrived_at = NULL,
                    ![tracking_id].completed_at = NULL,
                    ![tracking_id].stages.sewing.status = COMPLETED,
                    ![tracking_id].stages.sewing.completed_at = TS,
                    ![tracking_id].stages.ironing = StageState(PENDING, NULL, NULL)],
        inv)

\* START_IRONING
start_ironing(trk, inv, tracking_id) ==
    IF ~ProductionRequestValid("START_IRONING", tracking_id, NONE)
      THEN ProductionOutcome(422, trk, inv)
    ELSE IF tracking_id \notin DOMAIN trk THEN ProductionOutcome(404, trk, inv)
    ELSE
      LET tracking_data == trk[tracking_id]
          stage_data == tracking_data.stages
          current_stage == tracking_data.stage
          current_status == tracking_data.status
          allowed_state ==
              \/ current_stage = IRONING /\ current_status = PENDING
              \/ current_stage = SEWING /\ current_status = COMPLETED
      IN
      IF _ensure_cutting_completed(stage_data) THEN ProductionOutcome(400, trk, inv)
      ELSE IF _ensure_sewing_completed(stage_data) THEN ProductionOutcome(400, trk, inv)
      ELSE IF stage_data.ironing.status # PENDING \/ ~allowed_state
        THEN ProductionOutcome(400, trk, inv)
      ELSE
        ProductionOutcome(200,
          [trk EXCEPT ![tracking_id].stage = IRONING,
                      ![tracking_id].status = IN_PROGRESS,
                      ![tracking_id].arrived_at = TS,
                      ![tracking_id].completed_at = NULL,
                      ![tracking_id].stages.ironing.status = IN_PROGRESS,
                      ![tracking_id].stages.ironing.arrived_at = TS],
          inv)

\* COMPLETE_IRONING: the tracking record is updated first, then the ledger is
\* credited; an error of the credit ends the call after the tracking update
complete_ironing(dsg, trk, inv, tracking_id) ==
    IF ~ProductionRequestValid("COMPLETE_IRONING", tracking_id, NONE)
      THEN ProductionOutcome(422, trk, inv)
    ELSE IF tracking_id \notin DOMAIN trk THEN ProductionOutcome(404, trk, inv)
    ELSE IF trk[tracking_id].stage # IRONING THEN ProductionOutcome(400, trk, inv)
    ELSE IF trk[tracking_id].status # IN_PROGRESS THEN ProductionOutcome(400, trk, inv)
    ELSE
      LET updated == [trk EXCEPT ![tracking_id].status = COMPLETED,
                                 ![tracking_id].stages.ironing.status = COMPLETED,
                                 ![tracking_id].stages.ironing.completed_at = TS,
                                 ![tracking_id].completed_at = TS]
          design_id == trk[tracking_id].design_id
          credit == IF design_id # NONE
                      THEN _adjust_inventory(dsg, inv, design_id, 1)
                      ELSE [status |-> 200, inventory |-> inv]
      IN ProductionOutcome(credit.status, updated, credit.inventory)

\* STAGE_SEQUENCE.index(stage), counted from 0
StageIndex(stage) ==
    (CHOOSE i \in DOMAIN STAGE_SEQUENCE : STAGE_SEQUENCE[i] = stage) - 1

\* STAGE_SEQUENCE[index]: a negative index counts from the end of the list
StageAt(index) ==
    IF index < 0 THEN STAGE_SEQUENCE[Len(STAGE_SEQUENCE) + index + 1]
    ELSE STAGE_SEQUENCE[index + 1]

\* a DELETE without the check of the first stage
first_stage_never_checked(current_index) == FALSE

\* DELETE, the check of the first stage: TRUE when it raises
at_first_stage(current_index) == current_index = 0

\* an update that opens the previous stage again
revert_reopens_previous(trk, tracking_id, previous_key, current_key) ==
    [trk EXCEPT ![tracking_id].stage = previous_key,
                ![tracking_id].status = IN_PROGRESS,
                ![tracking_id].arrived_at = TS,
                ![tracking_id].completed_at = NULL,
                ![tracking_id].stages[previous_key] = StageState(IN_PROGRESS, TS, NULL),
                ![tracking_id].stages[current_key] = StageState(PENDING, NULL, NULL)]

\* an update that resets the previous stage only
revert_keeps_current(trk, tracking_id, previous_key, current_key) ==
    [trk EXCEPT ![tracking_id].stage = previous_key,
                ![tracking_id].status = PENDING,
                ![tracking_id].arrived_at = NULL,
                ![tracking_id].completed_at = NULL,
                ![tracking_id].stages[previous_key] = StageState(PENDING, NULL, NULL)]

\* an update that resets the statuses and keeps the stages' timestamps
revert_keeps_timestamps(trk, tracking_id, previous_key, current_key) ==
    [trk EXCEPT ![tracking_id].stage = previous_key,
                ![tracking_id].status = PENDING,
                ![tracking_id].arrived_at = NULL,
                ![tracking_id].completed_at = NULL,
                ![tracking_id].stages[previous_key].status = PENDING,
                ![tracking_id].stages[current_key].status = PENDING]

\* DELETE, the update of the tracking record
revert_updates(trk, tracking_id, previous_key, current_key) ==
    [trk EXCEPT ![tracking_id].stage = previous_key,
                ![tracking_id].status = PENDING,
                ![tracking_id].arrived_at = NULL,
                ![tracking_id].completed_at = NULL,
                ![tracking_id].stages[previous_key] = StageState(PENDING, NULL, NULL),
                ![tracking_id].stages[current_key] = StageState(PENDING, NULL, NULL)]

\* a test that never asks for the debit
ironing_never_debited(current_stage, current_stage_state, design_id) == FALSE

\* a test that debits at every status of the ironing stage
ironing_at_any_status(current_stage, current_stage_state, design_id) ==
    /\ current_stage = IRONING
    /\ design_id # NONE

\* DELETE, the test for the debit of the ledger
ironing_completed(current_stage, current_stage_state, design_id) ==
    /\ current_stage = IRONING
    /\ current_stage_state.status = COMPLETED
    /\ design_id # NONE

\* DELETE: revert to the previous stage
revert(dsg, trk, inv, tracking_id, access_level) ==
    IF ~ProductionRequestValid("DELETE", tracking_id, NONE)
      THEN ProductionOutcome(422, trk, inv)
    ELSE IF access_level # LEVEL_2 THEN ProductionOutcome(403, trk, inv)
    ELSE IF tracking_id \notin DOMAIN trk THEN ProductionOutcome(404, trk, inv)
    ELSE
      LET tracking_data == trk[tracking_id]
          stage_data == tracking_data.stages
          current_key == tracking_data.stage
          current_index == StageIndex(current_key)
          previous_key == StageAt(current_index - 1)
          design_id == tracking_data.design_id
          debit == IF ironing_completed(current_key, stage_data[current_key], design_id)
                     THEN _adjust_inventory(dsg, inv, design_id, -1)
                     ELSE [status |-> 200, inventory |-> inv]
      IN
      IF at_first_stage(current_index) THEN ProductionOutcome(400, trk, inv)
      ELSE IF stage_data[previous_key].status = PENDING
        THEN ProductionOutcome(400, trk, inv)
      ELSE IF debit.status # 200
        THEN ProductionOutcome(debit.status, trk, inv)
      ELSE
        ProductionOutcome(200,
          revert_updates(trk, tracking_id, previous_key, current_key),
          debit.inventory)

---------------------------------------------------------------------------
(* Sales                                                                   *)

SaleItem(size, quantity) == [size |-> size, quantity |-> quantity]

\* item lists a sale request can carry
ItemLists ==
    { <<SaleItem("S", 1)>>,
      <<SaleItem("S", 1), SaleItem("S", 1)>>,
      <<SaleItem("M", 5)>>,
      <<SaleItem("", 1)>> }

\* selling_price_per_piece values a sale request can carry
UnitPrices == {2}

\* payment_amount values a MAKE_PAYMENT request can carry
PaymentAmounts == {4}

\* _normalize_sizes: quantities per size; items without a size are skipped
RECURSIVE size_totals_of(_, _)
size_totals_of(items, size_totals) ==
    IF items = <<>> THEN size_totals
    ELSE LET item == Head(items)
         IN size_totals_of(Tail(items),
                IF item.size = NONE THEN size_totals
                ELSE Put(size_totals, item.size,
                         Get(size_totals, item.size, 0) + item.quantity))

\* a normalisation that looks at the first item only
_normalize_sizes_first_only(items) ==
    IF items = <<>> THEN EmptyDict ELSE size_totals_of(<<Head(items)>>, EmptyDict)

\* a normalisation that counts one unit for each item
_normalize_sizes_counts_items(items) ==
    size_totals_of([i \in DOMAIN items |-> [size |-> items[i].size, quantity |-> 1]],
                   EmptyDict)

_normalize_sizes(items) == size_totals_of(items, EmptyDict)

\* _build_line_items: every payload item becomes a line, with or without a size
RECURSIVE _build_line_items(_, _)
_build_line_items(payload_items, unit_price) ==
    IF payload_items = <<>>
      THEN [items |-> <<>>, total_quantity |-> 0, total_amount |-> 0]
    ELSE LET item == Head(payload_items)
             rest == _build_line_items(Tail(payload_items), unit_price)
             line_total == unit_price * item.quantity
         IN [items |-> <<[size |-> item.size,
                          quantity |-> item.quantity,
                          selling_price |-> unit_price,
                          line_total |-> line_total]>> \o rest.items,
             total_quantity |-> item.quantity + rest.total_quantity,
             total_amount |-> line_total + rest.total_amount]

\* SaleItem: quantity > 0; items: min_items = 1
ItemsValid(items) ==
    /\ Len(items) >= 1
    /\ \A i \in DOMAIN items : items[i].quantity > 0

\* SaleCreatePayload
SaleCreatePayloadValid(payload) ==
    /\ payload.selling_price_per_piece > 0
    /\ ItemsValid(payload.items)
    /\ payload.amount_paid >= 0

\* the id of a new sale document; ids are opaque, any unused one will do
\* (0 when all MaxSales ids are in use: the model then does not take the step)
NewSaleId(sls) ==
    IF SaleIds \ DOMAIN sls = {} THEN 0
    ELSE CHOOSE id \in SaleIds \ DOMAIN sls : TRUE

SaleOutcome(status, inv, sls) ==
    [status |-> status, inventory |-> inv, sales |-> sls]

\* CREATE
sale_create(inv, sls, payload) ==
    IF ~SaleCreatePayloadValid(payload) THEN SaleOutcome(422, inv, sls)
    ELSE IF payload.design_id \notin DOMAIN inv THEN SaleOutcome(400, inv, sls)
    ELSE
      LET design_id == payload.design_id
          inventory_data == inv[design_id]
          size_totals == _normalize_sizes(payload.items)
          unit_price == payload.selling_price_per_piece
          available(size) == Get(inventory_data.sizes, size, 0)
          inventory_sizes ==
              [size \in DOMAIN inventory_data.sizes \cup DOMAIN size_totals |->
                  IF size \in DOMAIN size_totals
                    THEN available(size) - size_totals[size]
                    ELSE inventory_data.sizes[size]]
          build_result == _build_line_items(payload.items, unit_price)
          total_quantity == build_result.total_quantity
          total_amount == build_result.total_amount
          amount_paid == payload.amount_paid
          balance == total_amount - amount_paid
          remaining_total == inventory_data.total_available - total_quantity
      IN
      IF \E size \in DOMAIN size_totals : available(size) < size_totals[size]
        THEN SaleOutcome(400, inv, sls)
      ELSE IF payload.payment_type = CASH /\ amount_paid # total_amount
        THEN SaleOutcome(400, inv, sls)
      ELSE IF payload.payment_type = CREDIT /\ amount_paid > total_amount
        THEN SaleOutcome(400, inv, sls)
      ELSE IF balance < 0 THEN SaleOutcome(400, inv, sls)
      ELSE IF remaining_total < 0 THEN SaleOutcome(400, inv, sls)
      ELSE
        SaleOutcome(200,
          [inv EXCEPT ![design_id] = InventoryDoc(inventory_sizes, remaining_total)],
          Put(sls, NewSaleId(sls),
              [design_id |-> design_id,
               items |-> build_result.items,
               total_quantity |-> total_quantity,
               total_amount |-> total_amount,
               unit_selling_price |-> unit_price,
               payment_type |-> payload.payment_type,
               amount_paid |-> amount_paid,
               balance |-> balance]))

\* UPDATE; payload.items_given is FALSE when the payload has no items, and
\* payload.customer_given is TRUE when it has a customer_name or customer_phone
\* (the customer fields themselves are not part of the model)
sale_update(inv, sls, sale_id, payload) ==
    IF payload.items_given /\ ~ItemsValid(payload.items) THEN SaleOutcome(422, inv, sls)
    ELSE IF sale_id \notin DOMAIN sls THEN SaleOutcome(404, inv, sls)
    ELSE IF sls[sale_id].balance > 0 THEN SaleOutcome(400, inv, sls)
    ELSE IF sls[sale_id].design_id = NONE THEN SaleOutcome(400, inv, sls)
    ELSE IF sls[sale_id].design_id \notin DOMAIN inv THEN SaleOutcome(400, inv, sls)
    ELSE
      LET existing_sale == sls[sale_id]
          design_id == existing_sale.design_id
          inventory_data == inv[design_id]
          old_totals == _normalize_sizes(existing_sale.items)
          new_totals == _normalize_sizes(payload.items)
          unit_price == existing_sale.unit_selling_price
          restored(size) == Get(inventory_data.sizes, size, 0) + Get(old_totals, size, 0)
          inventory_sizes ==
              [size \in DOMAIN inventory_data.sizes \cup DOMAIN old_totals
                          \cup DOMAIN new_totals |->
                  restored(size) - Get(new_totals, size, 0)]
          build_result == _build_line_items(payload.items, unit_price)
          total_new == build_result.total_quantity
          total_amount == build_result.total_amount
          total_old == SumValues(old_totals)
          remaining_total == inventory_data.total_available + total_old - total_new
      IN
      IF payload.items_given THEN
        IF \E size \in DOMAIN new_totals : restored(size) < new_totals[size]
          THEN SaleOutcome(400, inv, sls)
        ELSE IF total_amount # existing_sale.total_amount
          THEN SaleOutcome(400, inv, sls)
        ELSE IF remaining_total < 0 THEN SaleOutcome(400, inv, sls)
        ELSE
          SaleOutcome(200,
            [inv EXCEPT ![design_id] = InventoryDoc(inventory_sizes, remaining_total)],
            [sls EXCEPT ![sale_id].items = build_result.items,
                        ![sale_id].total_quantity = total_new,
                        ![sale_id].total_amount = total_amount,
                        ![sale_id].unit_selling_price = unit_price])
      ELSE IF ~payload.customer_given THEN SaleOutcome(400, inv, sls)
      ELSE SaleOutcome(200, inv, sls)

\* MAKE_PAYMENT
make_payment(inv, sls, sale_id, payment_amount) ==
    IF payment_amount <= 0 THEN SaleOutcome(422, inv, sls)
    ELSE IF sale_id \notin DOMAIN sls THEN SaleOutcome(404, inv, sls)
    ELSE
      LET sale_data == sls[sale_id]
          new_amount_paid == sale_data.amount_paid + payment_amount
          new_balance == sale_data.total_amount - new_amount_paid
      IN
      IF sale_data.payment_type # CREDIT THEN SaleOutcome(400, inv, sls)
      ELSE IF sale_data.balance <= 0 THEN SaleOutcome(400, inv, sls)
      ELSE IF payment_amount > sale_data.balance THEN SaleOutcome(400, inv, sls)
      ELSE IF new_balance < 0 THEN SaleOutcome(400, inv, sls)
      ELSE
        SaleOutcome(200, inv,
          [sls EXCEPT ![sale_id].amount_paid = new_amount_paid,
                      ![sale_id].balance = new_balance])

\* DELETE
sale_delete(inv, sls, sale_id, access_level) ==
    IF sale_id \notin DOMAIN sls THEN SaleOutcome(404, inv, sls)
    ELSE
      LET sale_data == sls[sale_id]
          design_id == sale_data.design_id
          deleted == [id \in DOMAIN sls \ {sale_id} |-> sls[id]]
      IN
      IF sale_data.balance > 0 /\ access_level # LEVEL_2
        THEN SaleOutcome(403, inv, sls)
      ELSE IF design_id = NONE THEN SaleOutcome(200, inv, deleted)
      ELSE IF design_id \notin DOMAIN inv THEN SaleOutcome(400, inv, sls)
      ELSE
        LET inventory_data == inv[design_id]
            sale_totals == _normalize_sizes(sale_data.items)
            total_return == SumValues(sale_totals)
            inventory_sizes ==
                [size \in DOMAIN inventory_data.sizes \cup DOMAIN sale_totals |->
                    Get(inventory_data.sizes, size, 0) + Get(sale_totals, size, 0)]
            remaining_total == inventory_data.total_available + total_return
        IN SaleOutcome(200,
             [inv EXCEPT ![design_id] = InventoryDoc(inventory_sizes, remaining_total)],
             deleted)

---------------------------------------------------------------------------
(* Design catalog operations (design router)                               *)

DesignOutcome(status, dsg) == [status |-> status, designs |-> dsg]

\* UPDATE with a size_distribution in the payload
design_update(dsg, design_id, size_distribution) ==
    IF design_id \notin DOMAIN dsg THEN DesignOutcome(404, dsg)
    ELSE DesignOutcome(200,
           [dsg EXCEPT ![design_id].size_distribution = size_distribution])

\* DELETE
design_delete(dsg, design_id) ==
    IF design_id \notin DOMAIN dsg THEN DesignOutcome(404, dsg)
    ELSE DesignOutcome(200, [id \in DOMAIN dsg \ {design_id} |-> dsg[id]])

---------------------------------------------------------------------------
(* The calls, one at a time                                                *)

\* payment_type and amount_paid of a CREATE request, for a sale of total_amount
Payments(total_amount) ==
    { [payment_type |-> CASH, amount_paid |-> total_amount],
      [payment_type |-> CASH, amount_paid |-> 0],
      [payment_type |-> CREDIT, amount_paid |-> 0] }

\* the payloads of the sale requests
SaleCreatePayloads ==
    UNION {
      {[design_id |-> design_id, items |-> items, selling_price_per_piece |-> unit_price,
        payment_type |-> payment.payment_type, amount_paid |-> payment.amount_paid]
          : design_id \in DesignIds,
            payment \in Payments(_build_line_items(items, unit_price).total_amount)}
      : items \in ItemLists, unit_price \in UnitPrices }

SaleUpdatePayloads ==
    {[items_given |-> TRUE, items |-> items, customer_given |-> FALSE]
        : items \in ItemLists}
    \cup {[items_given |-> FALSE, items |-> <<>>, customer_given |-> customer_given]
        : customer_given \in BOOLEAN}

\* no size of any ledger above MaxStock
WithinStock(inv) ==
    \A d \in DOMAIN inv : \A size \in DOMAIN inv[d].sizes : inv[d].sizes[size] <= MaxStock

\* a query that never finds a document
query_finds_nothing(trk, design_id) == {NONE}

\* the document _get_tracking_by_design can return: NONE for None
TrackingQueryResults(trk, design_id) ==
    IF _get_tracking_by_design(trk, design_id) = {}
      THEN {NONE}
      ELSE _get_tracking_by_design(trk, design_id)

\* the threads that run calls
Callers == {"c1", "c2"}

\* a thread that runs no call
Idle ==
    [op |-> NONE, pc |-> "idle", payload |-> <<>>, tracking_id |-> NONE, sale_id |-> 0,
     inventory |-> EmptyDict, sale |-> <<>>, status |-> 0]

\* the sizes of the garments
Sizes == {"S", "M"}

\* produced[design_id][size]: what the ironing completions have credited to the
\* ledger less what the reverts have debited from it, kept by SpecAccounted
NothingProduced == [design_id \in DesignIds |-> [size \in Sizes |-> 0]]

Init ==
    /\ designs \in [DesignIds -> [size_distribution : SizeDistributions]]
    /\ tracking = EmptyDict
    /\ inventory = EmptyDict
    /\ sales = EmptyDict
    /\ calls = [c \in Callers |-> Idle]
    /\ produced = NothingProduced

Production(out) ==
    /\ tracking' = out.tracking
    /\ inventory' = out.inventory
    /\ UNCHANGED <<designs, sales, calls, produced>>

StartCutting ==
    \E tracking_id \in TrackingIds \cup {NONE}, design_id \in DesignIds \cup {NONE} :
      \E existing \in TrackingQueryResults(tracking, design_id) :
        Production(start_cutting(designs, tracking, inventory, tracking_id, design_id, existing))

CompleteCutting ==
    \E tracking_id \in TrackingIds :
      Production(complete_cutting(tracking, inventory, tracking_id))

StartSewing ==
    \E tracking_id \in TrackingIds :
      Production(start_sewing(tracking, inventory, tracking_id))

CompleteSewing ==
    \E tracking_id \in TrackingIds :
      Production(complete_sewing(tracking, inventory, tracking_id))

StartIroning ==
    \E tracking_id \in TrackingIds :
      Production(start_ironing(tracking, inventory, tracking_id))

CompleteIroning ==
    \E tracking_id \in TrackingIds :
      LET out == complete_ironing(designs, tracking, inventory, tracking_id)
      IN /\ WithinStock(out.inventory)
         /\ Production(out)

Revert ==
    \E tracking_id \in TrackingIds, access_level \in AccessLevel :
      Production(revert(designs, tracking, inventory, tracking_id, access_level))

Sale(out) ==
    /\ inventory' = out.inventory
    /\ sales' = out.sales
    /\ UNCHANGED <<designs, tracking, calls, produced>>

SaleCreate ==
    \E payload \in SaleCreatePayloads :
      LET out == sale_create(inventory, sales, payload)
      IN /\ out.status = 200 => NewSaleId(sales) # 0
         /\ Sale(out)

SaleUpdate ==
    \E sale_id \in SaleIds, payload \in SaleUpdatePayloads :
      Sale(sale_update(inventory, sales, sale_id, payload))

MakePayment ==
    \E sale_id \in SaleIds, payment_amount \in PaymentAmounts :
      Sale(make_payment(inventory, sales, sale_id, payment_amount))

SaleDelete ==
    \E sale_id \in SaleIds, access_level \in AccessLevel :
      Sale(sale_delete(inventory, sales, sale_id, access_level))

Design(out) ==
    /\ designs' = out.designs
    /\ UNCHANGED <<tracking, inventory, sales, calls, produced>>

DesignUpdate ==
    \E design_id \in DesignIds, size_distribution \in SizeDistributions :
      Design(design_update(designs, design_id, size_distribution))

DesignDelete ==
    \E design_id \in DesignIds :
      Design(design_delete(designs, design_id))

\* Read operations (inventory, production and quotation routers): outcome
\* [status, body, <the collections>]; the body is what the response is made
\* of, an error has none

ReadOutcome(status, body, trk, inv, sls) ==
    [status |-> status, body |-> body, tracking |-> trk, inventory |-> inv, sales |-> sls]

\* inventory READ_ALL
inventory_read_all(trk, inv, sls) ==
    ReadOutcome(200, {[id |-> id, record |-> inv[id]] : id \in DOMAIN inv}, trk, inv, sls)

\* inventory GET_BY_DESIGN
inventory_get_by_design(trk, inv, sls, design_id) ==
    IF design_id = NONE THEN ReadOutcome(400, {}, trk, inv, sls)
    ELSE IF design_id \notin DOMAIN inv THEN ReadOutcome(404, {}, trk, inv, sls)
    ELSE ReadOutcome(200, {[id |-> design_id, record |-> inv[design_id]]}, trk, inv, sls)

\* the documents of a query of the tracking collection, each with its id
TrackingDocs(trk, ids) == {[id |-> id, record |-> trk[id]] : id \in ids}

\* production READ_ALL
production_read_all(trk, inv, sls) ==
    ReadOutcome(200, TrackingDocs(trk, DOMAIN trk), trk, inv, sls)

\* production GET_BY_DESIGN
production_get_by_design(dsg, trk, inv, sls, design_id) ==
    IF design_id = NONE THEN ReadOutcome(422, {}, trk, inv, sls)
    ELSE IF design_id \notin DOMAIN dsg THEN ReadOutcome(404, {}, trk, inv, sls)
    ELSE ReadOutcome(200,
           TrackingDocs(trk, {id \in DOMAIN trk : trk[id].design_id = design_id}),
           trk, inv, sls)

\* production GET_BY_STAGE
production_get_by_stage(trk, inv, sls, stage) ==
    IF stage = NONE THEN ReadOutcome(422, {}, trk, inv, sls)
    ELSE ReadOutcome(200, TrackingDocs(trk, {id \in DOMAIN trk : trk[id].stage = stage}),
                     trk, inv, sls)

\* production GET_IN_PROGRESS
production_get_in_progress(trk, inv, sls) ==
    ReadOutcome(200,
      TrackingDocs(trk, {id \in DOMAIN trk : trk[id].status \in {IN_PROGRESS, PENDING}}),
      trk, inv, sls)

\* the quotation router's _normalize_sizes: quantities per size, of every item
RECURSIVE quotation_normalize_sizes(_)
quotation_normalize_sizes(items) ==
    IF items = <<>> THEN EmptyDict
    ELSE LET totals == quotation_normalize_sizes(Tail(items))
             item == Head(items)
         IN Put(totals, item.size, Get(totals, item.size, 0) + item.quantity)

\* QuotationCreatePayload
QuotationCreatePayloadValid(payload) ==
    /\ payload.selling_price_per_piece > 0
    /\ ItemsValid(payload.items)

\* a quotation that takes the units it quotes out of the ledger
operate_quotation_reserves(trk, inv, sls, payload) ==
    IF payload.design_id \notin DOMAIN inv THEN ReadOutcome(404, {}, trk, inv, sls)
    ELSE
      LET size_totals == quotation_normalize_sizes(payload.items)
          held == inv[payload.design_id].sizes
      IN ReadOutcome(200, {},
           trk,
           [inv EXCEPT ![payload.design_id].sizes =
              [size \in DOMAIN held |-> held[size] - Get(size_totals, size, 0)]],
           sls)

\* quotation GENERATE
operate_quotation(trk, inv, sls, payload) ==
    IF ~QuotationCreatePayloadValid(payload) THEN ReadOutcome(422, {}, trk, inv, sls)
    ELSE IF payload.design_id \notin DOMAIN inv THEN ReadOutcome(404, {}, trk, inv, sls)
    ELSE
      LET inventory_sizes == inv[payload.design_id].sizes
          size_totals == quotation_normalize_sizes(payload.items)
          unit_price == payload.selling_price_per_piece
          total_quantity == SumValues(size_totals)
      IN
      IF \E size \in DOMAIN size_totals : Get(inventory_sizes, size, 0) < size_totals[size]
        THEN ReadOutcome(400, {}, trk, inv, sls)
      ELSE
        ReadOutcome(200,
          {[design_id |-> payload.design_id,
            total_requested_quantity |-> total_quantity,
            total_amount |-> unit_price * total_quantity,
            unit_price |-> unit_price,
            available_inventory |-> inventory_sizes]},
          trk, inv, sls)

\* the payloads of the quotation requests
QuotationCreatePayloads ==
    {[design_id |-> design_id, items |-> items, selling_price_per_piece |-> unit_price]
        : design_id \in DesignIds, items \in ItemLists, unit_price \in UnitPrices}

Read(out) ==
    /\ tracking' = out.tracking
    /\ inventory' = out.inventory
    /\ sales' = out.sales
    /\ UNCHANGED <<designs, calls, produced>>

InventoryRead ==
    \/ Read(inventory_read_all(tracking, inventory, sales))
    \/ \E design_id \in DesignIds \cup {NONE} :
         Read(inventory_get_by_design(tracking, inventory, sales, design_id))

ProductionRead ==
    \/ Read(production_read_all(tracking, inventory, sales))
    \/ \E design_id \in DesignIds \cup {NONE} :
         Read(production_get_by_design(designs, tracking, inventory, sales, design_id))
    \/ \E stage \in ProductionStage \cup {NONE} :
         Read(production_get_by_stage(tracking, inventory, sales, stage))
    \/ Read(production_get_in_progress(tracking, inventory, sales))

QuotationGenerate ==
    \E payload \in QuotationCreatePayloads :
      Read(operate_quotation(tracking, inventory, sales, payload))

Next ==
    \/ StartCutting
    \/ CompleteCutting
    \/ StartSewing
    \/ CompleteSewing
    \/ StartIroning
    \/ CompleteIroning
    \/ Revert
    \/ SaleCreate
    \/ SaleUpdate
    \/ MakePayment
    \/ SaleDelete
    \/ DesignUpdate
    \/ DesignDelete

Spec == Init /\ [][Next]_vars

---------------------------------------------------------------------------
(* The read calls, among the calls that fill the collections they read.   *)

NextReads ==
    \/ StartCutting
    \/ CompleteCutting
    \/ StartSewing
    \/ CompleteSewing
    \/ StartIroning
    \/ CompleteIroning
    \/ Revert
    \/ SaleCreate
    \/ InventoryRead
    \/ ProductionRead
    \/ QuotationGenerate

SpecReads == Init /\ [][NextReads]_vars

---------------------------------------------------------------------------
(* The calls of Spec with an account of the credits and debits of the     *)
(* production calls: produced is raised by what a complete_ironing adds to *)
(* each size of the ledger and lowered by what a revert takes from it.     *)

\* the account after a production call that took the ledger from inv to after
Accounted(account, inv, after) ==
    [design_id \in DesignIds |->
        [size \in Sizes |->
            account[design_id][size]
              + (IF design_id \in DOMAIN after
                   THEN Get(after[design_id].sizes, size, 0) ELSE 0)
              - (IF design_id \in DOMAIN inv
                   THEN Get(inv[design_id].sizes, size, 0) ELSE 0)]]

ProductionAccounted(out) ==
    /\ tracking' = out.tracking
    /\ inventory' = out.inventory
    /\ produced' = Accounted(produced, inventory, out.inventory)
    /\ UNCHANGED <<designs, sales, calls>>

CompleteIroningAccounted ==
    \E tracking_id \in TrackingIds :
      LET out == complete_ironing(designs, tracking, inventory, tracking_id)
      IN /\ WithinStock(out.inventory)
         /\ ProductionAccounted(out)

RevertAccounted ==
    \E tracking_id \in TrackingIds, access_level \in AccessLevel :
      ProductionAccounted(revert(designs, tracking, inventory, tracking_id, access_level))

NextAccounted ==
    \/ StartCutting
    \/ CompleteCutting
    \/ StartSewing
    \/ CompleteSewing
    \/ StartIroning
    \/ CompleteIroningAccounted
    \/ RevertAccounted
    \/ SaleCreate
    \/ SaleUpdate
    \/ MakePayment
    \/ SaleDelete
    \/ DesignUpdate
    \/ DesignDelete

SpecAccounted == Init /\ [][NextAccounted]_vars

---------------------------------------------------------------------------
(* The stage operations applied to a tracking record of any shape: the     *)
(* record starts with any overview stage and status and any sub-statuses,  *)
(* as a handler may read it after interleaved or manual writes.            *)

\* the timestamps a stage with this sub-status carries
ShapeStage(status) ==
    StageState(status,
               IF status = PENDING THEN NULL ELSE TS,
               IF status = COMPLETED THEN TS ELSE NULL)

TrackingShapes ==
    {[design_id |-> design_id,
      stage |-> stage,
      status |-> status,
      stages |-> [cutting |-> ShapeStage(cutting),
                  sewing |-> ShapeStage(sewing),
                  ironing |-> ShapeStage(ironing)],
      arrived_at |-> IF status = IN_PROGRESS THEN TS ELSE NULL,
      completed_at |-> IF stage = IRONING /\ status = COMPLETED THEN TS ELSE NULL]
        : design_id \in DesignIds, stage \in ProductionStage, status \in ProductionStatus,
          cutting \in ProductionStatus, sewing \in ProductionStatus,
          ironing \in ProductionStatus}

\* ledgers the record's design can have: none, or the credit of Scenario A
LedgerSamples ==
    {EmptyDict}
    \cup {[d \in {design_id} |-> InventoryDoc([S |-> 2, M |-> 3], 5)] : design_id \in DesignIds}

InitAnyRecord ==
    /\ designs \in [DesignIds -> [size_distribution : SizeDistributions]] \cup {EmptyDict}
    /\ tracking \in {[id \in {"t1"} |-> shape] : shape \in TrackingShapes}
    /\ inventory \in LedgerSamples
    /\ sales = EmptyDict
    /\ calls = [c \in Callers |-> Idle]
    /\ produced = NothingProduced

NextProduction ==
    \/ StartCutting
    \/ CompleteCutting
    \/ StartSewing
    \/ CompleteSewing
    \/ StartIroning
    \/ CompleteIroning
    \/ Revert

SpecAnyRecord == InitAnyRecord /\ [][NextProduction]_vars

---------------------------------------------------------------------------
(* The writes of a call, in the order the code issues them, and a store    *)
(* that fails on one of them. No write is inside a try or a transaction:   *)
(* the writes before the failing one stay, the exception ends the call.    *)

INVENTORY_COLLECTION == "inventory"
SALES_COLLECTION == "sales"
PRODUCTION_COLLECTION == "production_tracking"

\* a write, with the documents of its collection after it
Write(collection, docs) == [collection |-> collection, docs |-> docs]

\* _adjust_inventory: doc_ref.update or doc_ref.set, reached when nothing raises
\* and the size map is not empty
_adjust_inventory_writes(dsg, inv, design_id, multiplier) ==
    LET adjust == _adjust_inventory(dsg, inv, design_id, multiplier)
    IN IF /\ adjust.status = 200
          /\ multiplier # 0
          /\ design_id \in DOMAIN dsg
          /\ DOMAIN _get_design_size_map(dsg[design_id]) # {}
         THEN <<Write(INVENTORY_COLLECTION, adjust.inventory)>>
         ELSE <<>>

\* COMPLETE_IRONING: doc_ref.update, then _adjust_inventory
complete_ironing_writes(dsg, trk, inv, tracking_id) ==
    LET out == complete_ironing(dsg, trk, inv, tracking_id)
    IN IF out.tracking = trk THEN <<>>
       ELSE <<Write(PRODUCTION_COLLECTION, out.tracking)>>
            \o (IF trk[tracking_id].design_id # NONE
                  THEN _adjust_inventory_writes(dsg, inv, trk[tracking_id].design_id, 1)
                  ELSE <<>>)

\* DELETE: _adjust_inventory when the record is at IRONING/COMPLETED, then
\* doc_ref.update
revert_writes(dsg, trk, inv, tracking_id, access_level) ==
    LET out == revert(dsg, trk, inv, tracking_id, access_level)
    IN IF out.status # 200 THEN <<>>
       ELSE (IF /\ trk[tracking_id].stage = IRONING
                /\ trk[tracking_id].stages[IRONING].status = COMPLETED
                /\ trk[tracking_id].design_id # NONE
               THEN _adjust_inventory_writes(dsg, inv, trk[tracking_id].design_id, -1)
               ELSE <<>>)
            \o <<Write(PRODUCTION_COLLECTION, out.tracking)>>

\* sale CREATE: inventory_ref.update, then doc_ref.set
sale_create_writes(inv, sls, payload) ==
    LET out == sale_create(inv, sls, payload)
    IN IF out.status # 200 THEN <<>>
       ELSE <<Write(INVENTORY_COLLECTION, out.inventory), Write(SALES_COLLECTION, out.sales)>>

\* sale UPDATE: inventory_ref.update when the payload has items, then
\* sale_ref.update
sale_update_writes(inv, sls, sale_id, payload) ==
    LET out == sale_update(inv, sls, sale_id, payload)
    IN IF out.status # 200 THEN <<>>
       ELSE (IF payload.items_given
               THEN <<Write(INVENTORY_COLLECTION, out.inventory)>>
               ELSE <<>>)
            \o <<Write(SALES_COLLECTION, out.sales)>>

\* sale DELETE: inventory_ref.update when the sale has a design, then
\* sale_ref.delete
sale_delete_writes(inv, sls, sale_id, access_level) ==
    LET out == sale_delete(inv, sls, sale_id, access_level)
    IN IF out.status # 200 THEN <<>>
       ELSE (IF sls[sale_id].design_id # NONE
               THEN <<Write(INVENTORY_COLLECTION, out.inventory)>>
               ELSE <<>>)
            \o <<Write(SALES_COLLECTION, out.sales)>>

\* the status of a call that an exception of the store ends: no handler
\* catches it, the framework answers 500 wherever it was raised
STORE_ERROR == 500

\* the documents of a collection after the first done writes of a call
DocsAfter(docs, collection, writes, done) ==
    LET written == {i \in 1..done : writes[i].collection = collection}
    IN IF written = {} THEN docs
       ELSE writes[CHOOSE i \in written : \A j \in written : j <= i].docs

\* a store that rolls the earlier writes of the call back
store_failure_rolls_back(trk, inv, sls, writes, failed) ==
    [status |-> STORE_ERROR, tracking |-> trk, inventory |-> inv, sales |-> sls]

\* the call whose write number failed raises: the writes before it are
\* committed, it and the later ones are not
store_failure(trk, inv, sls, writes, failed) ==
    [status |-> STORE_ERROR,
     tracking |-> DocsAfter(trk, PRODUCTION_COLLECTION, writes, failed - 1),
     inventory |-> DocsAfter(inv, INVENTORY_COLLECTION, writes, failed - 1),
     sales |-> DocsAfter(sls, SALES_COLLECTION, writes, failed - 1)]

\* the writes of the calls that can write the ledger and another record
CallWrites ==
    {complete_ironing_writes(designs, tracking, inventory, tracking_id)
        : tracking_id \in TrackingIds}
    \cup {revert_writes(designs, tracking, inventory, tracking_id, access_level)
        : tracking_id \in TrackingIds, access_level \in AccessLevel}
    \cup {sale_create_writes(inventory, sales, payload) : payload \in SaleCreatePayloads}
    \cup {sale_update_writes(inventory, sales, sale_id, payload)
        : sale_id \in SaleIds, payload \in SaleUpdatePayloads}
    \cup {sale_delete_writes(inventory, sales, sale_id, access_level)
        : sale_id \in SaleIds, access_level \in AccessLevel}

StoreFailure ==
    \E writes \in CallWrites :
      \E failed \in DOMAIN writes :
        LET out == store_failure(tracking, inventory, sales, writes, failed)
        IN /\ WithinStock(out.inventory)
           /\ tracking' = out.tracking
           /\ inventory' = out.inventory
           /\ sales' = out.sales
           /\ UNCHANGED <<designs, calls, produced>>

\* the calls that write the ledger, the stage operations that lead to them,
\* and the failures of the store
NextStoreFailure ==
    \/ NextProduction
    \/ SaleCreate
    \/ SaleUpdate
    \/ SaleDelete
    \/ StoreFailure

SpecStoreFailure == Init /\ [][NextStoreFailure]_vars

---------------------------------------------------------------------------
(* Calls in progress at the same time.  A call reads the documents it     *)
(* needs, checks them and computes what it writes from what it read; each  *)
(* read and each write is one access of the store, and the accesses of     *)
(* different calls interleave.  A call whose checks fail writes nothing    *)
(* and is left out; a call that has returned stays in calls with its       *)
(* status.  No design is written here, so the read of the design and the   *)
(* read of the inventory document in _adjust_inventory are one step.       *)

\* doc_ref.get(): the document read, as a collection of at most one document
Snapshot(docs, id) == [d \in DOMAIN docs \cap {id} |-> docs[d]]

\* db.collection(SALES_COLLECTION).document(): ids are opaque, any unused one
\* will do; there are as many as calls that can create a sale
ConcurrentSaleIds == 1..Cardinality(Callers)

NewConcurrentSaleId(sls) == CHOOSE id \in ConcurrentSaleIds \ DOMAIN sls : TRUE

\* an update computed from the document as it is when the write is applied
sale_create_update_in_transaction(inv, snapshot, payload) ==
    Put(inv, payload.design_id,
        sale_create(Snapshot(inv, payload.design_id), EmptyDict, payload)
          .inventory[payload.design_id])

\* sale CREATE, inventory_ref.update: the sizes and the total computed from
\* the document read at the start of the call
sale_create_update(inv, snapshot, payload) ==
    Put(inv, payload.design_id,
        sale_create(snapshot, EmptyDict, payload).inventory[payload.design_id])

\* sale CREATE, the sale record built from the document read
sale_create_record(snapshot, payload) ==
    sale_create(snapshot, EmptyDict, payload).sales[NewSaleId(EmptyDict)]

\* COMPLETE_IRONING, doc_ref.update: the fields named are written to the
\* document as it is
complete_ironing_update(trk, tracking_id) ==
    [trk EXCEPT ![tracking_id].status = COMPLETED,
                ![tracking_id].stages.ironing.status = COMPLETED,
                ![tracking_id].stages.ironing.completed_at = TS,
                ![tracking_id].completed_at = TS]

\* _adjust_inventory, doc_ref.update or doc_ref.set: the document computed
\* from the one read
_adjust_inventory_update(dsg, inv, snapshot, design_id, multiplier) ==
    Put(inv, design_id,
        _adjust_inventory(dsg, snapshot, design_id, multiplier).inventory[design_id])

\* sale DELETE, inventory_ref.update
sale_delete_update(inv, snapshot, sale_id, sale_data) ==
    Put(inv, sale_data.design_id,
        sale_delete(snapshot, [id \in {sale_id} |-> sale_data], sale_id, LEVEL_2)
          .inventory[sale_data.design_id])

Goto(c, call) ==
    calls' = [calls EXCEPT ![c] = call]

\* sale CREATE: inventory_ref.get() and the checks
SaleCreateRead(c) ==
    \E payload \in SaleCreatePayloads :
      LET snapshot == Snapshot(inventory, payload.design_id)
      IN /\ calls[c].pc = "idle"
         /\ sale_create(snapshot, EmptyDict, payload).status = 200
         /\ Goto(c, [Idle EXCEPT !.op = "sale_create", !.pc = "write_inventory",
                                 !.payload = <<payload>>, !.inventory = snapshot])
         /\ UNCHANGED <<designs, tracking, inventory, sales, produced>>

\* sale CREATE: inventory_ref.update
SaleCreateWriteInventory(c) ==
    /\ calls[c].op = "sale_create"
    /\ calls[c].pc = "write_inventory"
    /\ inventory' = sale_create_update(inventory, calls[c].inventory, calls[c].payload[1])
    /\ Goto(c, [calls[c] EXCEPT !.pc = "write_sale"])
    /\ UNCHANGED <<designs, tracking, sales, produced>>

\* sale CREATE: doc_ref.set and the return
SaleCreateWriteSale(c) ==
    /\ calls[c].op = "sale_create"
    /\ calls[c].pc = "write_sale"
    /\ sales' = Put(sales, NewConcurrentSaleId(sales),
                    sale_create_record(calls[c].inventory, calls[c].payload[1]))
    /\ Goto(c, [calls[c] EXCEPT !.pc = "done", !.status = 200])
    /\ UNCHANGED <<designs, tracking, inventory, produced>>

\* COMPLETE_IRONING: doc_ref.get() and the checks of stage and status
CompleteIroningRead(c) ==
    \E tracking_id \in DOMAIN tracking :
      /\ calls[c].pc = "idle"
      /\ tracking[tracking_id].stage = IRONING
      /\ tracking[tracking_id].status = IN_PROGRESS
      /\ Goto(c, [Idle EXCEPT !.op = "complete_ironing", !.pc = "write_tracking",
                              !.tracking_id = tracking_id])
      /\ UNCHANGED <<designs, tracking, inventory, sales, produced>>

\* COMPLETE_IRONING: doc_ref.update
CompleteIroningWriteTracking(c) ==
    /\ calls[c].op = "complete_ironing"
    /\ calls[c].pc = "write_tracking"
    /\ tracking' = complete_ironing_update(tracking, calls[c].tracking_id)
    /\ Goto(c, [calls[c] EXCEPT !.pc = "read_inventory"])
    /\ UNCHANGED <<designs, inventory, sales, produced>>

\* COMPLETE_IRONING, _adjust_inventory: the size map, doc_ref.get() and the
\* checks; the call returns here when there is nothing to write
CompleteIroningReadInventory(c) ==
    LET design_id == tracking[calls[c].tracking_id].design_id
        snapshot == Snapshot(inventory, design_id)
        credit == _adjust_inventory(designs, snapshot, design_id, 1)
    IN /\ calls[c].op = "complete_ironing"
       /\ calls[c].pc = "read_inventory"
       /\ IF _adjust_inventory_writes(designs, snapshot, design_id, 1) = <<>>
            THEN Goto(c, [calls[c] EXCEPT !.pc = "done", !.status = credit.status,
                                          !.inventory = snapshot])
            ELSE Goto(c, [calls[c] EXCEPT !.pc = "write_inventory",
                                          !.inventory = snapshot])
       /\ UNCHANGED <<designs, tracking, inventory, sales, produced>>

\* COMPLETE_IRONING, _adjust_inventory: doc_ref.update or doc_ref.set, and the
\* return
CompleteIroningWriteInventory(c) ==
    /\ calls[c].op = "complete_ironing"
    /\ calls[c].pc = "write_inventory"
    /\ inventory' = _adjust_inventory_update(designs, inventory, calls[c].inventory,
                        tracking[calls[c].tracking_id].design_id, 1)
    /\ Goto(c, [calls[c] EXCEPT !.pc = "done", !.status = 200])
    /\ UNCHANGED <<designs, tracking, sales, produced>>

\* sale DELETE by a LEVEL_2 caller: sale_ref.get(), inventory_ref.get() and
\* the checks
SaleDeleteRead(c) ==
    \E sale_id \in DOMAIN sales :
      LET snapshot == Snapshot(inventory, sales[sale_id].design_id)
      IN /\ calls[c].pc = "idle"
         /\ sale_delete(snapshot, sales, sale_id, LEVEL_2).status = 200
         /\ Goto(c, [Idle EXCEPT !.op = "sale_delete", !.pc = "write_inventory",
                                 !.sale_id = sale_id, !.sale = <<sales[sale_id]>>,
                                 !.inventory = snapshot])
         /\ UNCHANGED <<designs, tracking, inventory, sales, produced>>

\* sale DELETE: inventory_ref.update
SaleDeleteWriteInventory(c) ==
    /\ calls[c].op = "sale_delete"
    /\ calls[c].pc = "write_inventory"
    /\ inventory' = sale_delete_update(inventory, calls[c].inventory, calls[c].sale_id,
                                       calls[c].sale[1])
    /\ Goto(c, [calls[c] EXCEPT !.pc = "write_sale"])
    /\ UNCHANGED <<designs, tracking, sales, produced>>

\* sale DELETE: sale_ref.delete() and the return
SaleDeleteWriteSale(c) ==
    /\ calls[c].op = "sale_delete"
    /\ calls[c].pc = "write_sale"
    /\ sales' = [id \in DOMAIN sales \ {calls[c].sale_id} |-> sales[id]]
    /\ Goto(c, [calls[c] EXCEPT !.pc = "done", !.status = 200])
    /\ UNCHANGED <<designs, tracking, inventory, produced>>

\* a record in ironing, as START_IRONING leaves it
InIroning(design_id) ==
    [design_id |-> design_id,
     stage |-> IRONING,
     status |-> IN_PROGRESS,
     stages |-> [cutting |-> StageState(COMPLETED, TS, TS),
                 sewing |-> StageState(COMPLETED, TS, TS),
                 ironing |-> StageState(IN_PROGRESS, TS, NULL)],
     arrived_at |-> TS,
     completed_at |-> NULL]

\* the calls start on a store with a record in ironing and a ledger that is
\* missing or holds the credit of an earlier completion
InitConcurrent ==
    /\ designs \in [DesignIds -> [size_distribution : SizeDistributions]]
    /\ tracking \in {[id \in {"t1"} |-> InIroning(design_id)] : design_id \in DesignIds}
    /\ inventory \in LedgerSamples
    /\ sales = EmptyDict
    /\ calls = [c \in Callers |-> Idle]
    /\ produced = NothingProduced

NextConcurrent ==
    \/ \E c \in Callers : SaleCreateRead(c)
    \/ \E c \in Callers : SaleCreateWriteInventory(c)
    \/ \E c \in Callers : SaleCreateWriteSale(c)
    \/ \E c \in Callers : CompleteIroningRead(c)
    \/ \E c \in Callers : CompleteIroningWriteTracking(c)
    \/ \E c \in Callers : CompleteIroningReadInventory(c)
    \/ \E c \in Callers : CompleteIroningWriteInventory(c)
    \/ \E c \in Callers : SaleDeleteRead(c)
    \/ \E c \in Callers : SaleDeleteWriteInventory(c)
    \/ \E c \in Callers : SaleDeleteWriteSale(c)

SpecConcurrent == InitConcurrent /\ [][NextConcurrent]_vars

---------------------------------------------------------------------------
(* What the claims speak of                                                *)

\* the quantity the ledger of a design holds of a size: 0 when the record or
\* the size is missing
Qty(inv, design_id, size) ==
    IF design_id \in DOMAIN inv THEN Get(inv[design_id].sizes, size, 0) ELSE 0

\* the sizes a ledger holds
HeldSizes(inv, design_id) ==
    IF design_id \in DOMAIN inv THEN DOMAIN inv[design_id].sizes ELSE {}

RECURSIVE QuantityOf(_, _)
\* the units of a size in a list of {size, quantity} entries
QuantityOf(entries, size) ==
    IF entries = <<>> THEN 0
    ELSE (IF Head(entries).size = size THEN Head(entries).quantity ELSE 0)
         + QuantityOf(Tail(entries), size)

\* the sizes named in a list of {size, quantity} entries
SizesOf(entries) == {entries[i].size : i \in DOMAIN entries}

\* the units in a list of {size, quantity} entries
RECURSIVE UnitsOf(_)
UnitsOf(entries) ==
    IF entries = <<>> THEN 0 ELSE Head(entries).quantity + UnitsOf(Tail(entries))

AtStage(record, stage, status) == record.stage = stage /\ record.status = status

---------------------------------------------------------------------------
(* C1: after every ledger-changing operation, total_available of every     *)
(* inventory record equals the sum of its per-size quantities.             *)
C1_TotalIsSumOfSizes ==
    \A design_id \in DOMAIN inventory :
        inventory[design_id].total_available = SumValues(inventory[design_id].sizes)

(* C2: no per-size quantity and no total_available is negative; a ledger   *)
(* adjustment (credit or debit by the design's size map, sale creation)    *)
(* that would make a touched size or the total negative is rejected and    *)
(* leaves the sizes and the total of the record as they are.               *)
DebitFallsShort(design_id) ==
    /\ design_id \in DOMAIN designs
    /\ design_id \in DOMAIN inventory
    /\ \/ \E size \in {"S", "M"} :
             /\ QuantityOf(designs[design_id].size_distribution, size) > 0
             /\ Qty(inventory, design_id, size)
                  < QuantityOf(designs[design_id].size_distribution, size)
       \/ inventory[design_id].total_available
            < QuantityOf(designs[design_id].size_distribution, "S")
              + QuantityOf(designs[design_id].size_distribution, "M")

SaleFallsShort(payload) ==
    /\ payload.design_id \in DOMAIN inventory
    /\ \/ \E size \in {"S", "M"} :
             Qty(inventory, payload.design_id, size) < QuantityOf(payload.items, size)
       \/ inventory[payload.design_id].total_available < UnitsOf(payload.items)

C2_NeverNegative ==
    /\ \A design_id \in DOMAIN inventory :
         /\ inventory[design_id].total_available >= 0
         /\ \A size \in DOMAIN inventory[design_id].sizes :
              inventory[design_id].sizes[size] >= 0
    /\ \A design_id \in DesignIds :
         DebitFallsShort(design_id) =>
           /\ _adjust_inventory(designs, inventory, design_id, -1).status = 400
           /\ _adjust_inventory(designs, inventory, design_id, -1).inventory = inventory
    /\ \A payload \in SaleCreatePayloads :
         SaleFallsShort(payload) =>
           /\ sale_create(inventory, sales, payload).status = 400
           /\ sale_create(inventory, sales, payload).inventory = inventory

\* a revert whose debit falls short of the stock of one size only
C2_Witness ==
    \E tracking_id \in DOMAIN tracking :
        /\ AtStage(tracking[tracking_id], IRONING, COMPLETED)
        /\ DebitFallsShort(tracking[tracking_id].design_id)
        /\ inventory[tracking[tracking_id].design_id].total_available
             >= SumValues(_get_design_size_map(designs[tracking[tracking_id].design_id]))
        /\ revert(designs, tracking, inventory, tracking_id, LEVEL_2).status = 400

(* C3: every tracking record reachable through the stage operations and   *)
(* revert has the overview status as the sub-status of the overview stage, *)
(* every earlier stage COMPLETED, every later stage PENDING, and at most   *)
(* one stage IN_PROGRESS, exactly one when the overview is IN_PROGRESS.    *)
StagesInProgress(record) ==
    {i \in DOMAIN STAGE_SEQUENCE : record.stages[STAGE_SEQUENCE[i]].status = IN_PROGRESS}

C3_StagesFollowOverview ==
    \A tracking_id \in DOMAIN tracking :
        LET record == tracking[tracking_id]
        IN /\ record.stages[record.stage].status = record.status
           /\ \A i \in DOMAIN STAGE_SEQUENCE :
                /\ i - 1 < StageIndex(record.stage)
                     => record.stages[STAGE_SEQUENCE[i]].status = COMPLETED
                /\ i - 1 > StageIndex(record.stage)
                     => record.stages[STAGE_SEQUENCE[i]].status = PENDING
           /\ Cardinality(StagesInProgress(record)) <= 1
           /\ record.status = IN_PROGRESS => Cardinality(StagesInProgress(record)) = 1

\* a record that went through all stages and was reverted down to the first
C3_Witness ==
    \E tracking_id \in DOMAIN tracking :
        /\ AtStage(tracking[tracking_id], CUTTING, PENDING)
        /\ tracking[tracking_id].design_id \in DOMAIN inventory

(* C4: complete_ironing on a record at IRONING/IN_PROGRESS, its design in  *)
(* the catalog, succeeds, sets the ironing sub-status and the overview     *)
(* status to COMPLETED and adds to the ledger, for each non-empty size of  *)
(* the size_distribution, the units the distribution gives it; the record  *)
(* is created when missing, and nothing is written to the ledger when the  *)
(* distribution names no size.                                             *)
SizedUnits(entries) == UnitsOf(entries) - QuantityOf(entries, NONE)

TotalOf(inv, design_id) ==
    IF design_id \in DOMAIN inv THEN inv[design_id].total_available ELSE 0

IroningCompleted(out, tracking_id) ==
    /\ out.tracking[tracking_id].stage = IRONING
    /\ out.tracking[tracking_id].status = COMPLETED
    /\ out.tracking[tracking_id].stages.ironing.status = COMPLETED

CreditedBy(inv, after, design_id, distribution) ==
    /\ design_id \in DOMAIN after
    /\ HeldSizes(after, design_id)
         = HeldSizes(inv, design_id) \cup (SizesOf(distribution) \ {NONE})
    /\ \A size \in HeldSizes(after, design_id) :
         Qty(after, design_id, size)
           = Qty(inv, design_id, size) + QuantityOf(distribution, size)
    /\ TotalOf(after, design_id) = TotalOf(inv, design_id) + SizedUnits(distribution)

C4_CreditsSizedQuantities ==
    \A tracking_id \in DOMAIN tracking :
        LET design_id == tracking[tracking_id].design_id
            out == complete_ironing(designs, tracking, inventory, tracking_id)
        IN (AtStage(tracking[tracking_id], IRONING, IN_PROGRESS)
              /\ design_id \in DOMAIN designs)
           => /\ out.status = 200
              /\ IroningCompleted(out, tracking_id)
              /\ IF SizesOf(designs[design_id].size_distribution) \ {NONE} = {}
                   THEN out.inventory = inventory
                   ELSE CreditedBy(inventory, out.inventory, design_id,
                                   designs[design_id].size_distribution)

\* Scenario A: the first completion of a design with [(S,2),(M,3)]
C4_Witness ==
    \E tracking_id \in DOMAIN tracking :
        LET design_id == tracking[tracking_id].design_id
            out == complete_ironing(designs, tracking, inventory, tracking_id)
        IN /\ AtStage(tracking[tracking_id], IRONING, IN_PROGRESS)
           /\ design_id \in DOMAIN designs
           /\ designs[design_id].size_distribution = <<SizeInfo("S", 2), SizeInfo("M", 3)>>
           /\ design_id \notin DOMAIN inventory
           /\ out.status = 200
           /\ out.inventory[design_id] = InventoryDoc([S |-> 2, M |-> 3], 5)

\* C4 as stated: a record holding the credited quantities exists afterwards,
\* whatever the size_distribution
C4_CreditsAndCreates ==
    \A tracking_id \in DOMAIN tracking :
        LET design_id == tracking[tracking_id].design_id
            out == complete_ironing(designs, tracking, inventory, tracking_id)
        IN (AtStage(tracking[tracking_id], IRONING, IN_PROGRESS)
              /\ design_id \in DOMAIN designs)
           => /\ IroningCompleted(out, tracking_id)
              /\ CreditedBy(inventory, out.inventory, design_id,
                            designs[design_id].size_distribution)

(* C5: complete_ironing of a record at IRONING/IN_PROGRESS followed by     *)
(* revert of the same record leaves every per-size quantity of the         *)
(* design's ledger as it was, sizes outside the size_distribution too.     *)
C5_CompleteThenRevertRestores ==
    \A tracking_id \in DOMAIN tracking :
        LET design_id == tracking[tracking_id].design_id
            completed == complete_ironing(designs, tracking, inventory, tracking_id)
            reverted == revert(designs, completed.tracking, completed.inventory,
                               tracking_id, LEVEL_2)
        IN AtStage(tracking[tracking_id], IRONING, IN_PROGRESS)
           => \A size \in HeldSizes(inventory, design_id)
                          \cup HeldSizes(reverted.inventory, design_id) :
                  Qty(reverted.inventory, design_id, size) = Qty(inventory, design_id, size)

\* both calls succeed on a ledger that holds a size the design no longer has
C5_Witness ==
    \E tracking_id \in DOMAIN tracking :
        LET design_id == tracking[tracking_id].design_id
            completed == complete_ironing(designs, tracking, inventory, tracking_id)
            reverted == revert(designs, completed.tracking, completed.inventory,
                               tracking_id, LEVEL_2)
        IN /\ AtStage(tracking[tracking_id], IRONING, IN_PROGRESS)
           /\ design_id \in DOMAIN designs
           /\ \E size \in HeldSizes(inventory, design_id) :
                /\ size \notin SizesOf(designs[design_id].size_distribution)
                /\ Qty(inventory, design_id, size) > 0
           /\ completed.status = 200
           /\ completed.inventory # inventory
           /\ reverted.status = 200

(* C6: a sale creation that asks, for every size, at most what the ledger  *)
(* holds of it (and whose payment is acceptable) succeeds, takes the       *)
(* requested units off each requested size and off total_available,        *)
(* leaves the other sizes alone and creates exactly one sale record with   *)
(* those items.                                                            *)
PaymentAccepted(payload) ==
    LET total_amount == UnitsOf(payload.items) * payload.selling_price_per_piece
    IN /\ payload.payment_type = CASH => payload.amount_paid = total_amount
       /\ payload.payment_type = CREDIT => payload.amount_paid <= total_amount

C6_SaleTakesRequestedUnits ==
    \A payload \in SaleCreatePayloads :
        LET design_id == payload.design_id
            out == sale_create(inventory, sales, payload)
        IN (/\ design_id \in DOMAIN inventory
            /\ PaymentAccepted(payload)
            /\ \A size \in SizesOf(payload.items) :
                 QuantityOf(payload.items, size) <= Qty(inventory, design_id, size))
           => /\ out.status = 200
              /\ HeldSizes(out.inventory, design_id) = HeldSizes(inventory, design_id)
              /\ \A size \in HeldSizes(inventory, design_id) :
                   Qty(out.inventory, design_id, size)
                     = Qty(inventory, design_id, size) - QuantityOf(payload.items, size)
              /\ TotalOf(out.inventory, design_id)
                   = TotalOf(inventory, design_id) - UnitsOf(payload.items)
              /\ Cardinality(DOMAIN out.sales \ DOMAIN sales) = 1
              /\ \A sale_id \in DOMAIN sales : out.sales[sale_id] = sales[sale_id]
              /\ \A sale_id \in DOMAIN out.sales \ DOMAIN sales :
                   /\ out.sales[sale_id].design_id = design_id
                   /\ Len(out.sales[sale_id].items) = Len(payload.items)
                   /\ \A i \in DOMAIN payload.items :
                        /\ out.sales[sale_id].items[i].size = payload.items[i].size
                        /\ out.sales[sale_id].items[i].quantity = payload.items[i].quantity

(* C7: a sale creation that asks for more units of some size than the      *)
(* ledger holds of it (a size the ledger lacks and a design without        *)
(* inventory record included) is rejected; the ledger and the sale         *)
(* records stay as they are.                                               *)
C7_ShortSaleRejected ==
    \A payload \in SaleCreatePayloads :
        LET out == sale_create(inventory, sales, payload)
        IN (\E size \in SizesOf(payload.items) :
               QuantityOf(payload.items, size) > Qty(inventory, payload.design_id, size))
           => /\ out.status # 200
              /\ out.inventory = inventory
              /\ out.sales = sales

(* C8: start_sewing on a tracking record whose cutting sub-status is not   *)
(* COMPLETED fails with status 400 and leaves the record (and the ledger)  *)
(* unchanged, whatever the overview stage and status are.                  *)
C8_SewingNeedsCutting ==
    \A tracking_id \in DOMAIN tracking :
        tracking[tracking_id].stages.cutting.status # COMPLETED
          => start_sewing(tracking, inventory, tracking_id)
               = ProductionOutcome(400, tracking, inventory)

\* the overview and the sewing sub-status would let sewing start
C8_Witness ==
    \E tracking_id \in DOMAIN tracking :
        /\ tracking[tracking_id].stages.cutting.status # COMPLETED
        /\ AtStage(tracking[tracking_id], SEWING, PENDING)
        /\ tracking[tracking_id].stages.sewing.status = PENDING
        /\ start_sewing(tracking, inventory, tracking_id).status = 400

(* C9: revert on a record whose overview stage is CUTTING, whatever its    *)
(* status, is rejected, with status 400 for a caller allowed to revert;    *)
(* the tracking records and the ledger stay as they are.                   *)
C9_NoRevertPastCutting ==
    \A tracking_id \in DOMAIN tracking :
        tracking[tracking_id].stage = CUTTING
          => /\ revert(designs, tracking, inventory, tracking_id, LEVEL_2)
                  = ProductionOutcome(400, tracking, inventory)
             /\ \A access_level \in AccessLevel :
                  LET out == revert(designs, tracking, inventory, tracking_id, access_level)
                  IN /\ out.status # 200
                     /\ out.tracking = tracking
                     /\ out.inventory = inventory

\* the stage before the first, counted from the end of the list, is not PENDING
C9_Witness ==
    \E tracking_id \in DOMAIN tracking :
        /\ tracking[tracking_id].stage = CUTTING
        /\ tracking[tracking_id].stages.ironing.status = COMPLETED
        /\ tracking[tracking_id].design_id \in DOMAIN inventory
        /\ revert(designs, tracking, inventory, tracking_id, LEVEL_2).status = 400

(* C10: a successful revert of a record whose overview stage has index     *)
(* i > 0 makes the stage of index i-1 the overview stage with status       *)
(* PENDING, leaves that stage and the former overview stage PENDING        *)
(* without timestamps and the third stage as it was; from                  *)
(* IRONING/COMPLETED it takes the design's quantities off the ledger, and  *)
(* from anywhere else it leaves the ledger alone.                          *)
DebitedBy(inv, after, design_id, distribution) ==
    /\ HeldSizes(after, design_id) = HeldSizes(inv, design_id)
    /\ \A size \in HeldSizes(inv, design_id) \cup (SizesOf(distribution) \ {NONE}) :
         Qty(after, design_id, size)
           = Qty(inv, design_id, size) - QuantityOf(distribution, size)
    /\ TotalOf(after, design_id) = TotalOf(inv, design_id) - SizedUnits(distribution)

C10_RevertStepsBack ==
    \A tracking_id \in DOMAIN tracking :
        LET record == tracking[tracking_id]
            out == revert(designs, tracking, inventory, tracking_id, LEVEL_2)
            after == out.tracking[tracking_id]
            i == StageIndex(record.stage)
        IN out.status = 200
           => /\ i > 0
              /\ after.stage = STAGE_SEQUENCE[i]
              /\ after.status = PENDING
              /\ after.stages[STAGE_SEQUENCE[i]] = StageState(PENDING, NULL, NULL)
              /\ after.stages[record.stage] = StageState(PENDING, NULL, NULL)
              /\ \A stage \in ProductionStage \ {STAGE_SEQUENCE[i], record.stage} :
                   after.stages[stage] = record.stages[stage]
              /\ IF AtStage(record, IRONING, COMPLETED)
                   THEN /\ record.design_id \in DOMAIN designs
                        /\ DebitedBy(inventory, out.inventory, record.design_id,
                                     designs[record.design_id].size_distribution)
                   ELSE out.inventory = inventory

\* Scenario D: the revert of a completed record whose credit is still in stock
C10_Witness ==
    \E tracking_id \in DOMAIN tracking :
        LET record == tracking[tracking_id]
            out == revert(designs, tracking, inventory, tracking_id, LEVEL_2)
        IN /\ AtStage(record, IRONING, COMPLETED)
           /\ record.design_id \in DOMAIN inventory
           /\ inventory[record.design_id] = InventoryDoc([S |-> 2, M |-> 3], 5)
           /\ out.status = 200
           /\ out.inventory[record.design_id] = InventoryDoc([S |-> 0, M |-> 0], 0)
           /\ AtStage(out.tracking[tracking_id], SEWING, PENDING)

(* C11: a complete_ironing, revert, sale create, sale update or sale        *)
(* delete that ends with a not-found error (404) or a precondition error   *)
(* (400) has changed no document: the tracking records, the ledger and     *)
(* the sale records are those from before the call.                        *)
NotFoundOrPrecondition(status) == status \in {400, 404}

C11_ErrorsWriteNothing ==
    /\ \A tracking_id \in TrackingIds :
         LET out == complete_ironing(designs, tracking, inventory, tracking_id)
         IN NotFoundOrPrecondition(out.status)
              => out.tracking = tracking /\ out.inventory = inventory
    /\ \A tracking_id \in TrackingIds :
         LET out == revert(designs, tracking, inventory, tracking_id, LEVEL_2)
         IN NotFoundOrPrecondition(out.status)
              => out.tracking = tracking /\ out.inventory = inventory
    /\ \A payload \in SaleCreatePayloads :
         LET out == sale_create(inventory, sales, payload)
         IN NotFoundOrPrecondition(out.status)
              => out.inventory = inventory /\ out.sales = sales
    /\ \A sale_id \in SaleIds, payload \in SaleUpdatePayloads :
         LET out == sale_update(inventory, sales, sale_id, payload)
         IN NotFoundOrPrecondition(out.status)
              => out.inventory = inventory /\ out.sales = sales
    /\ \A sale_id \in SaleIds, access_level \in AccessLevel :
         LET out == sale_delete(inventory, sales, sale_id, access_level)
         IN NotFoundOrPrecondition(out.status)
              => out.inventory = inventory /\ out.sales = sales

(* C12: every call that writes both the ledger and a tracking or sale      *)
(* record issues the ledger write before the write of that record.         *)
C12_LedgerWrittenFirst ==
    \A writes \in CallWrites :
        \A i \in DOMAIN writes, j \in DOMAIN writes :
            (writes[i].collection = INVENTORY_COLLECTION
               /\ writes[j].collection # INVENTORY_COLLECTION)
            => i < j

(* C13: a stage operation or a revert whose stage precondition does not    *)
(* hold for the record it reads (wrong overview stage, stage not in        *)
(* progress, predecessor not completed, target stage not PENDING) returns  *)
(* status 400 and writes nothing to the tracking records or the ledger.    *)
(* start_cutting has no stage precondition.                                *)
CanComplete(record, stage) == AtStage(record, stage, IN_PROGRESS)

CanStartSewing(record) ==
    /\ record.stages.cutting.status = COMPLETED
    /\ record.stages.sewing.status = PENDING
    /\ \/ AtStage(record, CUTTING, COMPLETED)
       \/ AtStage(record, SEWING, PENDING)
       \/ AtStage(record, SEWING, COMPLETED)

CanStartIroning(record) ==
    /\ record.stages.cutting.status = COMPLETED
    /\ record.stages.sewing.status = COMPLETED
    /\ record.stages.ironing.status = PENDING
    /\ \/ AtStage(record, SEWING, COMPLETED)
       \/ AtStage(record, IRONING, PENDING)

CanRevert(record) ==
    \/ record.stage = SEWING /\ record.stages.cutting.status # PENDING
    \/ record.stage = IRONING /\ record.stages.sewing.status # PENDING

RejectedUnwritten(out) == out = ProductionOutcome(400, tracking, inventory)

C13_StagePreconditionGuardsWrites ==
    \A tracking_id \in DOMAIN tracking :
        LET record == tracking[tracking_id]
        IN /\ ~CanComplete(record, CUTTING)
                => RejectedUnwritten(complete_cutting(tracking, inventory, tracking_id))
           /\ ~CanStartSewing(record)
                => RejectedUnwritten(start_sewing(tracking, inventory, tracking_id))
           /\ ~CanComplete(record, SEWING)
                => RejectedUnwritten(complete_sewing(tracking, inventory, tracking_id))
           /\ ~CanStartIroning(record)
                => RejectedUnwritten(start_ironing(tracking, inventory, tracking_id))
           /\ ~CanComplete(record, IRONING)
                => RejectedUnwritten(
                     complete_ironing(designs, tracking, inventory, tracking_id))
           /\ ~CanRevert(record)
                => RejectedUnwritten(
                     revert(designs, tracking, inventory, tracking_id, LEVEL_2))

\* ironing is asked to start on a record whose overview and ironing stage
\* would allow it, but whose sewing is not completed
C13_Witness ==
    \E tracking_id \in DOMAIN tracking :
        LET record == tracking[tracking_id]
        IN /\ AtStage(record, IRONING, PENDING)
           /\ record.stages.ironing.status = PENDING
           /\ record.stages.cutting.status = COMPLETED
           /\ record.stages.sewing.status = IN_PROGRESS
           /\ start_ironing(tracking, inventory, tracking_id).status = 400

(* C14: the per-size amounts a revert takes off the ledger of a record at  *)
(* IRONING/COMPLETED are the amounts credited when the ironing of that     *)
(* record was completed, whatever size_distribution the design catalog     *)
(* holds for the design when the revert is called.                         *)
C14_DebitEqualsCredit ==
    \A tracking_id \in DOMAIN tracking, size_distribution \in SizeDistributions :
        LET design_id == tracking[tracking_id].design_id
            completed == complete_ironing(designs, tracking, inventory, tracking_id)
            updated == design_update(designs, design_id, size_distribution)
            reverted == revert(updated.designs, completed.tracking, completed.inventory,
                               tracking_id, LEVEL_2)
        IN (/\ AtStage(tracking[tracking_id], IRONING, IN_PROGRESS)
            /\ completed.status = 200
            /\ updated.status = 200
            /\ reverted.status = 200)
           => \A size \in HeldSizes(completed.inventory, design_id) :
                  Qty(completed.inventory, design_id, size)
                    - Qty(reverted.inventory, design_id, size)
                  = Qty(completed.inventory, design_id, size)
                    - Qty(inventory, design_id, size)

(* C15: when the store fails on the write of the tracking or sale record   *)
(* after the ledger write of the same call was committed, the status       *)
(* returned tells the partial application: it is none of the statuses of   *)
(* validation (422), not-found (404), precondition (400) and permission    *)
(* (403) errors, and none that a call ended by the store with nothing      *)
(* committed returns.                                                      *)
LedgerCommittedBefore(writes, failed) ==
    /\ writes[failed].collection # INVENTORY_COLLECTION
    /\ \E i \in 1..(failed - 1) : writes[i].collection = INVENTORY_COLLECTION

C15_PartialApplicationReported ==
    \A writes \in CallWrites :
        \A failed \in DOMAIN writes :
            LedgerCommittedBefore(writes, failed)
            => LET status ==
                       store_failure(tracking, inventory, sales, writes, failed).status
               IN /\ status \notin {422, 404, 400, 403}
                  /\ \A others \in CallWrites :
                       others # <<>>
                         => store_failure(tracking, inventory, sales, others, 1).status
                              # status

(* C16: in sale create, sale update with items, sale delete and revert      *)
(* from IRONING/COMPLETED, when the write (or delete) of the sale or       *)
(* tracking record fails after the ledger write succeeded, the ledger has  *)
(* its new values, the sale and tracking records are as before the call,   *)
(* and the call has issued one ledger write only.                          *)
LedgerWrites(writes) == {i \in DOMAIN writes : writes[i].collection = INVENTORY_COLLECTION}

\* the state a call of outcome out and writes <<ledger, record>> leaves when
\* its second write fails
LedgerOnlyApplied(out, writes) ==
    /\ Len(writes) = 2
    /\ LedgerWrites(writes) = {1}
    /\ LET failure == store_failure(tracking, inventory, sales, writes, 2)
       IN /\ failure.inventory = out.inventory
          /\ failure.tracking = tracking
          /\ failure.sales = sales

C16_LedgerKeptRecordNot ==
    /\ \A payload \in SaleCreatePayloads :
         LET out == sale_create(inventory, sales, payload)
         IN out.status = 200
              => LedgerOnlyApplied(out, sale_create_writes(inventory, sales, payload))
    /\ \A sale_id \in SaleIds, payload \in SaleUpdatePayloads :
         LET out == sale_update(inventory, sales, sale_id, payload)
         IN (out.status = 200 /\ payload.items_given)
              => LedgerOnlyApplied(out, sale_update_writes(inventory, sales, sale_id, payload))
    /\ \A sale_id \in SaleIds, access_level \in AccessLevel :
         LET out == sale_delete(inventory, sales, sale_id, access_level)
         IN (out.status = 200 /\ sales[sale_id].design_id # NONE)
              => LedgerOnlyApplied(out, sale_delete_writes(inventory, sales, sale_id,
                                                           access_level))
    /\ \A tracking_id \in DOMAIN tracking :
         LET out == revert(designs, tracking, inventory, tracking_id, LEVEL_2)
         IN (/\ AtStage(tracking[tracking_id], IRONING, COMPLETED)
             /\ out.status = 200
             /\ out.inventory # inventory)
              => LedgerOnlyApplied(out, revert_writes(designs, tracking, inventory,
                                                      tracking_id, LEVEL_2))

\* a sale of one S out of {S:2, M:3} took its unit off the ledger and left
\* no sale record
C16_Witness ==
    /\ sales = EmptyDict
    /\ \E design_id \in DOMAIN inventory :
         /\ inventory[design_id] = InventoryDoc([S |-> 1, M |-> 3], 4)
         /\ design_id \in DOMAIN designs
         /\ designs[design_id].size_distribution = <<SizeInfo("S", 2), SizeInfo("M", 3)>>

(* C17: with calls one at a time there is at most one tracking record per  *)
(* design_id: start_cutting with a design_id creates a record only when    *)
(* the design has none, and otherwise resets the one it has.               *)
CuttingStarted(record) ==
    /\ AtStage(record, CUTTING, IN_PROGRESS)
    /\ record.stages = _default_stage_payload

C17_OneRecordPerDesign ==
    /\ \A design_id \in DesignIds :
         Cardinality({id \in DOMAIN tracking : tracking[id].design_id = design_id}) <= 1
    /\ \A design_id \in DesignIds :
         \A existing \in TrackingQueryResults(tracking, design_id) :
           LET out == start_cutting(designs, tracking, inventory, NONE, design_id, existing)
               records == {id \in DOMAIN tracking : tracking[id].design_id = design_id}
           IN out.status = 200
                => IF records = {}
                     THEN /\ Cardinality(DOMAIN out.tracking \ DOMAIN tracking) = 1
                          /\ \A id \in DOMAIN tracking : out.tracking[id] = tracking[id]
                          /\ \A id \in DOMAIN out.tracking \ DOMAIN tracking :
                               /\ out.tracking[id].design_id = design_id
                               /\ CuttingStarted(out.tracking[id])
                     ELSE /\ DOMAIN out.tracking = DOMAIN tracking
                          /\ \A id \in records : CuttingStarted(out.tracking[id])

\* the one record of a design whose ledger was credited is back at the start
\* of cutting
C17_Witness ==
    \E design_id \in DOMAIN inventory :
        /\ Cardinality(DOMAIN tracking) = 1
        /\ \A id \in DOMAIN tracking :
             /\ tracking[id].design_id = design_id
             /\ CuttingStarted(tracking[id])
        /\ start_cutting(designs, tracking, inventory, NONE, design_id,
                         CHOOSE id \in DOMAIN tracking : TRUE).tracking = tracking

(* C18: start_cutting on an existing tracking record, named by its id or   *)
(* found by the design_id of a design of the catalog, succeeds whatever    *)
(* the overview stage, status and sub-statuses of the record are, and      *)
(* leaves it at CUTTING/IN_PROGRESS with cutting IN_PROGRESS, arrived_at   *)
(* set and completed_at cleared, and sewing and ironing PENDING without    *)
(* timestamps; for a design_id that is not in the catalog or a tracking_id *)
(* that does not exist it returns 404 and creates no record.               *)
CuttingRestarted(out, tracking_id) ==
    /\ out.status = 200
    /\ out.inventory = inventory
    /\ DOMAIN out.tracking = DOMAIN tracking
    /\ \A id \in DOMAIN tracking \ {tracking_id} : out.tracking[id] = tracking[id]
    /\ out.tracking[tracking_id].design_id = tracking[tracking_id].design_id
    /\ AtStage(out.tracking[tracking_id], CUTTING, IN_PROGRESS)
    /\ out.tracking[tracking_id].stages.cutting
         = [status |-> IN_PROGRESS, arrived_at |-> TS, completed_at |-> NULL]
    /\ out.tracking[tracking_id].stages.sewing
         = [status |-> PENDING, arrived_at |-> NULL, completed_at |-> NULL]
    /\ out.tracking[tracking_id].stages.ironing
         = [status |-> PENDING, arrived_at |-> NULL, completed_at |-> NULL]

C18_StartCuttingResets ==
    /\ \A tracking_id \in DOMAIN tracking :
         /\ \A design_id \in DesignIds \cup {NONE} :
              \A existing \in TrackingQueryResults(tracking, design_id) :
                CuttingRestarted(
                  start_cutting(designs, tracking, inventory, tracking_id, design_id,
                                existing),
                  tracking_id)
         /\ tracking[tracking_id].design_id \in DOMAIN designs
              => CuttingRestarted(
                   start_cutting(designs, tracking, inventory, NONE,
                                 tracking[tracking_id].design_id, tracking_id),
                   tracking_id)
    /\ \A design_id \in DesignIds \ DOMAIN designs :
         \A existing \in TrackingQueryResults(tracking, design_id) :
           start_cutting(designs, tracking, inventory, NONE, design_id, existing)
             = ProductionOutcome(404, tracking, inventory)
    /\ \A tracking_id \in TrackingIds \ DOMAIN tracking :
         \A design_id \in DesignIds \cup {NONE} :
           \A existing \in TrackingQueryResults(tracking, design_id) :
             start_cutting(designs, tracking, inventory, tracking_id, design_id, existing)
               = ProductionOutcome(404, tracking, inventory)

\* a record with all stages completed is restarted
C18_Witness ==
    \E tracking_id \in DOMAIN tracking :
        /\ AtStage(tracking[tracking_id], IRONING, COMPLETED)
        /\ \A stage \in ProductionStage :
             tracking[tracking_id].stages[stage].status = COMPLETED
        /\ AtStage(start_cutting(designs, tracking, inventory, tracking_id, NONE, NONE)
                     .tracking[tracking_id],
                   CUTTING, IN_PROGRESS)

(* C19: complete_cutting succeeds exactly on a record whose overview is     *)
(* CUTTING/IN_PROGRESS and complete_sewing exactly on one whose overview   *)
(* is SEWING/IN_PROGRESS; on success the completed stage is COMPLETED with *)
(* completed_at set, the overview is the next stage with status PENDING,   *)
(* and the next stage's entry is PENDING with both timestamps cleared.     *)
NextStageOf(stage) == IF stage = CUTTING THEN SEWING ELSE IRONING

StageCompleted(out, tracking_id, stage) ==
    /\ out.tracking[tracking_id].stages[stage].status = COMPLETED
    /\ out.tracking[tracking_id].stages[stage].completed_at = TS
    /\ AtStage(out.tracking[tracking_id], NextStageOf(stage), PENDING)
    /\ out.tracking[tracking_id].stages[NextStageOf(stage)]
         = [status |-> PENDING, arrived_at |-> NULL, completed_at |-> NULL]

C19_CompletionNeedsInProgress ==
    \A tracking_id \in DOMAIN tracking :
        LET cut == complete_cutting(tracking, inventory, tracking_id)
            sew == complete_sewing(tracking, inventory, tracking_id)
        IN
        /\ cut.status = 200 <=> AtStage(tracking[tracking_id], CUTTING, IN_PROGRESS)
        /\ sew.status = 200 <=> AtStage(tracking[tracking_id], SEWING, IN_PROGRESS)
        /\ cut.status = 200 => StageCompleted(cut, tracking_id, CUTTING)
        /\ sew.status = 200 => StageCompleted(sew, tracking_id, SEWING)

\* a record in sewing, of any ironing entry, whose sewing is completed while
\* complete_cutting is refused on it
C19_Witness ==
    \E tracking_id \in DOMAIN tracking :
        /\ AtStage(tracking[tracking_id], SEWING, IN_PROGRESS)
        /\ tracking[tracking_id].stages.ironing.status # PENDING
        /\ complete_sewing(tracking, inventory, tracking_id).status = 200
        /\ complete_cutting(tracking, inventory, tracking_id).status = 400

(* C20: start_sewing succeeds exactly when cutting is COMPLETED, sewing is  *)
(* PENDING and the overview is CUTTING/COMPLETED, SEWING/PENDING or        *)
(* SEWING/COMPLETED; start_ironing exactly when cutting and sewing are     *)
(* COMPLETED, ironing is PENDING and the overview is SEWING/COMPLETED or   *)
(* IRONING/PENDING; on success the started stage and the overview are that *)
(* stage IN_PROGRESS with arrived_at set; hence no stage starts while the  *)
(* stage before it is PENDING or IN_PROGRESS.                              *)
StageStarted(out, tracking_id, stage) ==
    /\ AtStage(out.tracking[tracking_id], stage, IN_PROGRESS)
    /\ out.tracking[tracking_id].arrived_at = TS
    /\ out.tracking[tracking_id].stages[stage].status = IN_PROGRESS
    /\ out.tracking[tracking_id].stages[stage].arrived_at = TS

C20_StartNeedsPredecessorCompleted ==
    \A tracking_id \in DOMAIN tracking :
        LET record == tracking[tracking_id]
            sew == start_sewing(tracking, inventory, tracking_id)
            iron == start_ironing(tracking, inventory, tracking_id)
        IN
        /\ sew.status = 200 <=>
             /\ record.stages.cutting.status = COMPLETED
             /\ record.stages.sewing.status = PENDING
             /\ \/ AtStage(record, CUTTING, COMPLETED)
                \/ AtStage(record, SEWING, PENDING)
                \/ AtStage(record, SEWING, COMPLETED)
        /\ iron.status = 200 <=>
             /\ record.stages.cutting.status = COMPLETED
             /\ record.stages.sewing.status = COMPLETED
             /\ record.stages.ironing.status = PENDING
             /\ \/ AtStage(record, SEWING, COMPLETED)
                \/ AtStage(record, IRONING, PENDING)
        /\ sew.status = 200 => StageStarted(sew, tracking_id, SEWING)
        /\ iron.status = 200 => StageStarted(iron, tracking_id, IRONING)
        /\ record.stages.cutting.status \in {PENDING, IN_PROGRESS} => sew.status # 200
        /\ record.stages.sewing.status \in {PENDING, IN_PROGRESS} => iron.status # 200

\* ironing is started from SEWING/COMPLETED while sewing, already completed,
\* is not started again
C20_Witness ==
    \E tracking_id \in DOMAIN tracking :
        /\ AtStage(tracking[tracking_id], SEWING, COMPLETED)
        /\ start_ironing(tracking, inventory, tracking_id).status = 200
        /\ start_sewing(tracking, inventory, tracking_id).status = 400

(* C21: a credit or debit of the ledger by a design's size_distribution    *)
(* leaves every size the inventory record holds that is not in the         *)
(* size_distribution with its quantity, and removes no size key from the   *)
(* record; so do complete_ironing and revert, which issue them.            *)
OtherSizesKept(after, design_id) ==
    /\ design_id \in DOMAIN after
    /\ DOMAIN inventory[design_id].sizes \subseteq DOMAIN after[design_id].sizes
    /\ \A size \in DOMAIN inventory[design_id].sizes :
         size \notin SizesOf(designs[design_id].size_distribution)
           => after[design_id].sizes[size] = inventory[design_id].sizes[size]

C21_OtherSizesUntouched ==
    \A design_id \in DOMAIN designs \cap DOMAIN inventory :
        /\ \A multiplier \in {1, -1} :
             OtherSizesKept(
               _adjust_inventory(designs, inventory, design_id, multiplier).inventory,
               design_id)
        /\ \A tracking_id \in DOMAIN tracking :
             tracking[tracking_id].design_id = design_id =>
               /\ OtherSizesKept(
                    complete_ironing(designs, tracking, inventory, tracking_id).inventory,
                    design_id)
               /\ \A access_level \in AccessLevel :
                    OtherSizesKept(
                      revert(designs, tracking, inventory, tracking_id, access_level)
                        .inventory,
                      design_id)

\* the ledger holds a size that the design no longer lists, and a credit
\* changes another size
C21_Witness ==
    \E design_id \in DOMAIN designs \cap DOMAIN inventory :
        /\ \E size \in DOMAIN inventory[design_id].sizes :
             /\ size \notin SizesOf(designs[design_id].size_distribution)
             /\ inventory[design_id].sizes[size] > 0
        /\ _adjust_inventory(designs, inventory, design_id, 1).status = 200
        /\ _adjust_inventory(designs, inventory, design_id, 1).inventory # inventory

(* C22: for a design without an inventory record whose size_distribution   *)
(* names at least one size, a debit is rejected and creates no record, so  *)
(* a revert of an IRONING/COMPLETED record of that design fails and leaves *)
(* the tracking record as it is, and a credit creates the record with      *)
(* exactly the credited quantity of each size and their sum as             *)
(* total_available.  When the size_distribution names no size, the debit   *)
(* and the credit both return without error and without a record, and the  *)
(* revert succeeds.                                                        *)
NamedSizes(design_id) == SizesOf(designs[design_id].size_distribution) \ {NONE}

DebitRejected(design_id) ==
    /\ _adjust_inventory(designs, inventory, design_id, -1).status # 200
    /\ _adjust_inventory(designs, inventory, design_id, -1).inventory = inventory
    /\ \A tracking_id \in DOMAIN tracking :
         /\ tracking[tracking_id].design_id = design_id
         /\ AtStage(tracking[tracking_id], IRONING, COMPLETED)
         => /\ revert(designs, tracking, inventory, tracking_id, LEVEL_2).status # 200
            /\ revert(designs, tracking, inventory, tracking_id, LEVEL_2).tracking = tracking
            /\ revert(designs, tracking, inventory, tracking_id, LEVEL_2).inventory
                 = inventory

CreditCreates(design_id) ==
    LET out == _adjust_inventory(designs, inventory, design_id, 1)
    IN /\ out.status = 200
       /\ DOMAIN out.inventory = DOMAIN inventory \cup {design_id}
       /\ \A other \in DOMAIN inventory : out.inventory[other] = inventory[other]
       /\ DOMAIN out.inventory[design_id].sizes = NamedSizes(design_id)
       /\ \A size \in NamedSizes(design_id) :
            out.inventory[design_id].sizes[size]
              = QuantityOf(designs[design_id].size_distribution, size)
       /\ out.inventory[design_id].total_available
            = SizedUnits(designs[design_id].size_distribution)

NothingToAdjust(design_id) ==
    /\ \A multiplier \in {1, -1} :
         _adjust_inventory(designs, inventory, design_id, multiplier)
           = [status |-> 200, inventory |-> inventory]
    /\ \A tracking_id \in DOMAIN tracking :
         /\ tracking[tracking_id].design_id = design_id
         /\ AtStage(tracking[tracking_id], IRONING, COMPLETED)
         => /\ revert(designs, tracking, inventory, tracking_id, LEVEL_2).status = 200
            /\ revert(designs, tracking, inventory, tracking_id, LEVEL_2).inventory
                 = inventory

C22_MissingRecordDebitAndCredit ==
    \A design_id \in DOMAIN designs \ DOMAIN inventory :
        IF NamedSizes(design_id) # {}
          THEN DebitRejected(design_id) /\ CreditCreates(design_id)
          ELSE NothingToAdjust(design_id)

\* a record completed while its design named no size, the design then given
\* sizes: the revert has no inventory record to debit
C22_Witness ==
    \E tracking_id \in DOMAIN tracking :
        /\ AtStage(tracking[tracking_id], IRONING, COMPLETED)
        /\ tracking[tracking_id].design_id \in DOMAIN designs \ DOMAIN inventory
        /\ NamedSizes(tracking[tracking_id].design_id) # {}
        /\ revert(designs, tracking, inventory, tracking_id, LEVEL_2)
             = ProductionOutcome(400, tracking, inventory)

\* C22 as stated: every debit without an inventory record is rejected and
\* every credit without one creates it
C22_DebitAlwaysRejected ==
    \A design_id \in DOMAIN designs \ DOMAIN inventory :
        DebitRejected(design_id) /\ CreditCreates(design_id)

(* C23: deleting a sale adds the sold quantity of each size back to the    *)
(* ledger of the sale's design, raises total_available by the sale's       *)
(* total_quantity and removes the sale record, so that a sale create       *)
(* followed at once by the delete of that sale leaves the sizes and the    *)
(* total of the ledger as they were; without an inventory record of the    *)
(* design the delete is rejected and the sale record is kept.              *)
SaleReturned(sale_id, out) ==
    LET sale_data == sales[sale_id]
        design_id == sale_data.design_id
    IN /\ out.status = 200
       /\ sale_id \notin DOMAIN out.sales
       /\ \A size \in (HeldSizes(inventory, design_id) \cup SizesOf(sale_data.items)) \ {NONE} :
            Qty(out.inventory, design_id, size)
              = Qty(inventory, design_id, size) + QuantityOf(sale_data.items, size)
       /\ TotalOf(out.inventory, design_id)
            = TotalOf(inventory, design_id) + sale_data.total_quantity

WithoutRecord(inv, design_id) == [d \in DOMAIN inv \ {design_id} |-> inv[d]]

C23_DeleteRestores ==
    /\ \A sale_id \in DOMAIN sales :
         /\ sales[sale_id].design_id \in DOMAIN inventory
              => SaleReturned(sale_id, sale_delete(inventory, sales, sale_id, LEVEL_2))
         /\ sale_delete(WithoutRecord(inventory, sales[sale_id].design_id), sales,
                        sale_id, LEVEL_2)
              = SaleOutcome(400, WithoutRecord(inventory, sales[sale_id].design_id), sales)
    /\ \A payload \in SaleCreatePayloads :
         LET created == sale_create(inventory, sales, payload)
         IN NewSaleId(sales) # 0 /\ created.status = 200 =>
              LET deleted == sale_delete(created.inventory, created.sales,
                                         NewSaleId(sales), LEVEL_2)
              IN /\ deleted.status = 200
                 /\ deleted.inventory = inventory
                 /\ deleted.sales = sales

(* C24: a sale update with items sets every size of the ledger to its     *)
(* quantity plus the quantity of the size in the sale's old items minus    *)
(* its quantity in the new items; it is rejected, the ledger and the sale  *)
(* record unwritten, when a size would go below zero, when the sale has an *)
(* outstanding balance, or when the new items change the total amount; an  *)
(* update of customer fields only does not write the ledger.               *)
\* items an update can ask for: those of the calls and some that move units
\* from one size to another
UpdateItemLists ==
    ItemLists \cup { <<SaleItem("S", 1), SaleItem("M", 1)>>,
                     <<SaleItem("M", 2)>>,
                     <<SaleItem("M", 1)>> }

ItemUpdates ==
    {[items_given |-> TRUE, items |-> items, customer_given |-> customer_given]
        : items \in UpdateItemLists, customer_given \in BOOLEAN}

SizeAfterUpdate(sale_id, items, size) ==
    Qty(inventory, sales[sale_id].design_id, size)
      + QuantityOf(sales[sale_id].items, size) - QuantityOf(items, size)

UpdateRefused(sale_id, items) ==
    \/ \E size \in {"S", "M"} : SizeAfterUpdate(sale_id, items, size) < 0
    \/ sales[sale_id].balance > 0
    \/ UnitsOf(items) * sales[sale_id].unit_selling_price # sales[sale_id].total_amount

C24_UpdateMovesUnits ==
    \A sale_id \in DOMAIN sales :
        /\ \A payload \in ItemUpdates :
             LET out == sale_update(inventory, sales, sale_id, payload)
             IN /\ out.status = 200 =>
                     \A size \in {"S", "M"} :
                        Qty(out.inventory, sales[sale_id].design_id, size)
                          = SizeAfterUpdate(sale_id, payload.items, size)
                /\ UpdateRefused(sale_id, payload.items) =>
                     /\ out.status # 200
                     /\ out.inventory = inventory
                     /\ out.sales = sales
        /\ \A customer_given \in BOOLEAN :
             sale_update(inventory, sales, sale_id,
                         [items_given |-> FALSE, items |-> <<>>,
                          customer_given |-> customer_given]).inventory = inventory

\* a paid sale of two S becomes a sale of one S and one M: one S goes back to
\* the ledger and one M leaves it
C24_Witness ==
    \E sale_id \in DOMAIN sales :
        LET out == sale_update(inventory, sales, sale_id,
                               [items_given |-> TRUE,
                                items |-> <<SaleItem("S", 1), SaleItem("M", 1)>>,
                                customer_given |-> FALSE])
            design_id == sales[sale_id].design_id
        IN /\ QuantityOf(sales[sale_id].items, "S") = 2
           /\ out.status = 200
           /\ Qty(out.inventory, design_id, "S") = Qty(inventory, design_id, "S") + 1
           /\ Qty(out.inventory, design_id, "M") = Qty(inventory, design_id, "M") - 1

(* C25: nothing serializes the calls on a design: when two calls (sale     *)
(* creations, or a sale creation and an ironing completion) have both read *)
(* the same inventory document before either wrote it, each has checked    *)
(* and computed its write from that document, and when both have returned  *)
(* with success the ledger is what one of them alone made of it: the later *)
(* write has replaced the earlier one.                                     *)
Returned(c) == calls[c].pc = "done" /\ calls[c].status = 200

\* the ledger a call computes from the inventory document it read
AdjustedBy(c) ==
    IF calls[c].op = "sale_create"
      THEN sale_create(calls[c].inventory, EmptyDict, calls[c].payload[1]).inventory
    ELSE IF calls[c].op = "complete_ironing"
      THEN _adjust_inventory(designs, calls[c].inventory,
                             tracking[calls[c].tracking_id].design_id, 1).inventory
    ELSE sale_delete(calls[c].inventory,
                     [id \in {calls[c].sale_id} |-> calls[c].sale[1]],
                     calls[c].sale_id, LEVEL_2).inventory

C25_LaterWriteReplacesEarlier ==
    \A c1 \in Callers : \A c2 \in Callers \ {c1} :
        /\ Returned(c1)
        /\ Returned(c2)
        /\ calls[c1].inventory = calls[c2].inventory
        /\ calls[c1].inventory # EmptyDict
        => inventory \in {AdjustedBy(c1), AdjustedBy(c2)}

\* two sales of two S each have both succeeded on a ledger that held two S:
\* the ledger shows two S gone, four are sold
C25_Witness ==
    \E c1 \in Callers : \E c2 \in Callers \ {c1} :
        /\ Returned(c1) /\ calls[c1].op = "sale_create"
        /\ Returned(c2) /\ calls[c2].op = "sale_create"
        /\ calls[c1].inventory = calls[c2].inventory
        /\ LET design_id == calls[c1].payload[1].design_id
               sold == QuantityOf(calls[c1].payload[1].items, "S")
                         + QuantityOf(calls[c2].payload[1].items, "S")
           IN /\ calls[c2].payload[1].design_id = design_id
              /\ QuantityOf(calls[c1].payload[1].items, "S") > 0
              /\ QuantityOf(calls[c2].payload[1].items, "S") > 0
              /\ Cardinality(DOMAIN sales) = 2
              /\ Qty(inventory, design_id, "S")
                   > Qty(calls[c1].inventory, design_id, "S") - sold

(* C26: the read operations (inventory READ_ALL and GET_BY_DESIGN,         *)
(* production READ_ALL, GET_BY_DESIGN, GET_BY_STAGE and GET_IN_PROGRESS,   *)
(* quotation GENERATE) leave every inventory, tracking and sale document   *)
(* as it is, whether they succeed or fail, a quotation for more units than *)
(* the ledger holds included.                                              *)
Untouched(out) ==
    /\ out.tracking = tracking
    /\ out.inventory = inventory
    /\ out.sales = sales

C26_ReadsWriteNothing ==
    /\ Untouched(inventory_read_all(tracking, inventory, sales))
    /\ Untouched(production_read_all(tracking, inventory, sales))
    /\ Untouched(production_get_in_progress(tracking, inventory, sales))
    /\ \A design_id \in DesignIds \cup {NONE} :
         /\ Untouched(inventory_get_by_design(tracking, inventory, sales, design_id))
         /\ Untouched(production_get_by_design(designs, tracking, inventory, sales,
                                               design_id))
    /\ \A stage \in ProductionStage \cup {NONE} :
         Untouched(production_get_by_stage(tracking, inventory, sales, stage))
    /\ \A payload \in QuotationCreatePayloads :
         Untouched(operate_quotation(tracking, inventory, sales, payload))

\* with stock and a sale on record, one quotation is answered and another, for
\* more M than the ledger holds, is refused
C26_Witness ==
    /\ sales # EmptyDict
    /\ tracking # EmptyDict
    /\ \E payload \in QuotationCreatePayloads :
         /\ operate_quotation(tracking, inventory, sales, payload).status = 200
         /\ operate_quotation(tracking, inventory, sales, payload).body # {}
    /\ \E payload \in QuotationCreatePayloads :
         /\ QuantityOf(payload.items, "M") > Qty(inventory, payload.design_id, "M")
         /\ Qty(inventory, payload.design_id, "M") > 0
         /\ operate_quotation(tracking, inventory, sales, payload).status = 400

(* C27: a revert asked by a caller whose access level is not LEVEL_2 is   *)
(* rejected with 403 and changes neither the tracking record nor the       *)
(* ledger, whatever the state of the record; the delete of a sale with an  *)
(* outstanding balance by such a caller is rejected with 403 and leaves    *)
(* the sale record and the ledger as they are.                             *)
C27_Level2Only ==
    /\ \A tracking_id \in TrackingIds :
         revert(designs, tracking, inventory, tracking_id, LEVEL_1)
           = ProductionOutcome(403, tracking, inventory)
    /\ \A shape \in TrackingShapes :
         revert(designs, [id \in {"t1"} |-> shape], inventory, "t1", LEVEL_1)
           = ProductionOutcome(403, [id \in {"t1"} |-> shape], inventory)
    /\ \A sale_id \in DOMAIN sales :
         sales[sale_id].balance > 0
           => sale_delete(inventory, sales, sale_id, LEVEL_1)
                = SaleOutcome(403, inventory, sales)

\* a completed record that a LEVEL_2 caller can revert, and a sale on credit
\* that a LEVEL_2 caller can delete: a LEVEL_1 caller is refused both
C27_Witness ==
    /\ \E tracking_id \in DOMAIN tracking :
         /\ AtStage(tracking[tracking_id], IRONING, COMPLETED)
         /\ revert(designs, tracking, inventory, tracking_id, LEVEL_2).status = 200
         /\ revert(designs, tracking, inventory, tracking_id, LEVEL_1).status = 403
    /\ \E sale_id \in DOMAIN sales :
         /\ sales[sale_id].balance > 0
         /\ sale_delete(inventory, sales, sale_id, LEVEL_2).status = 200
         /\ sale_delete(inventory, sales, sale_id, LEVEL_1).status = 403

(* C28: whatever the interleaving of the calls that write the ledger of a  *)
(* design, every inventory record has no negative size quantity, no        *)
(* negative total, and a total_available equal to the sum of its sizes.    *)
C28_LedgerSoundUnderInterleaving ==
    \A design_id \in DOMAIN inventory :
        /\ \A size \in DOMAIN inventory[design_id].sizes :
             inventory[design_id].sizes[size] >= 0
        /\ inventory[design_id].total_available >= 0
        /\ inventory[design_id].total_available = SumValues(inventory[design_id].sizes)

(* C30: a passage of a tracking record from IRONING/IN_PROGRESS to         *)
(* IRONING/COMPLETED credits the ledger once, also when two                *)
(* complete_ironing calls on the record interleave between their read of   *)
(* the record and their writes: when both have returned, the ledger is one *)
(* credit above the ledger that each of them found.                        *)
C30_OneCreditPerCompletion ==
    \A c1 \in Callers : \A c2 \in Callers \ {c1} :
        /\ Returned(c1) /\ calls[c1].op = "complete_ironing"
        /\ Returned(c2) /\ calls[c2].op = "complete_ironing"
        /\ calls[c1].tracking_id = calls[c2].tracking_id
        => /\ inventory = AdjustedBy(c1)
           /\ inventory = AdjustedBy(c2)

(* C29: with the calls run one at a time and no failure of the store, for *)
(* every design and size the quantity in the ledger plus the quantities of *)
(* the size in the sale records of the design that exist equals what the   *)
(* ironing completions have credited less what the reverts have debited,   *)
(* so that the units on sale records never exceed the units produced.      *)
RECURSIVE SoldIn(_, _, _)
\* the units of a size in the sale records ids of a design
SoldIn(ids, design_id, size) ==
    IF ids = {} THEN 0
    ELSE LET id == CHOOSE x \in ids : TRUE
         IN (IF sales[id].design_id = design_id
               THEN QuantityOf(sales[id].items, size) ELSE 0)
            + SoldIn(ids \ {id}, design_id, size)

C29_UnitsAccountedFor ==
    \A design_id \in DesignIds : \A size \in Sizes :
        /\ Qty(inventory, design_id, size) + SoldIn(DOMAIN sales, design_id, size)
             = produced[design_id][size]
        /\ SoldIn(DOMAIN sales, design_id, size) <= produced[design_id][size]

\* after a completion and the sale of one S: one S is on a sale record, one
\* is left in the ledger and two are accounted as produced
C29_Witness ==
    \E design_id \in DesignIds :
        /\ SoldIn(DOMAIN sales, design_id, "S") = 1
        /\ Qty(inventory, design_id, "S") = 1
        /\ produced[design_id]["S"] = 2

---------------------------------------------------------------------------
(* C33: when sold units leave the ledger of a design with less of some     *)
(* size than the size_distribution gives it, revert at level 2 on the      *)
(* design's IRONING/COMPLETED record answers 400 and writes neither the    *)
(* ledger nor the record, and every other stage operation but              *)
(* start_cutting leaves the record as it is, so the record leaves          *)
(* IRONING/COMPLETED only by the reset of start_cutting or once the        *)
(* shortage has ended.                                                     *)

\* some size of the design's size map has fewer units in the ledger
Short(dsg, inv, design_id) ==
    /\ design_id \in DOMAIN dsg
    /\ \E size \in DOMAIN _get_design_size_map(dsg[design_id]) :
         Qty(inv, design_id, size) < _get_design_size_map(dsg[design_id])[size]

\* units of the design are on a sale record
SoldFrom(sls, design_id) ==
    \E sale_id \in DOMAIN sls :
        /\ sls[sale_id].design_id = design_id
        /\ UnitsOf(sls[sale_id].items) > 0

\* the records at IRONING/COMPLETED whose design is short of sold units
BlockedRecords ==
    {tracking_id \in DOMAIN tracking :
        /\ AtStage(tracking[tracking_id], IRONING, COMPLETED)
        /\ tracking[tracking_id].stages.ironing.status = COMPLETED
        /\ SoldFrom(sales, tracking[tracking_id].design_id)
        /\ Short(designs, inventory, tracking[tracking_id].design_id)}

RevertRejected(dsg, trk, inv, tracking_id) ==
    revert(dsg, trk, inv, tracking_id, LEVEL_2) = ProductionOutcome(400, trk, inv)

---------------------------------------------------------------------------
(* The production line alone: the stage operations and the edits of the     *)
(* catalog, one call at a time, with no sale                               *)
NextCatalog == DesignUpdate \/ DesignDelete

NextProductionLine == NextProduction \/ NextCatalog

SpecProductionLine == Init /\ [][NextProductionLine]_vars

(* C34: of the production operations only complete_ironing and the revert  *)
(* of an IRONING/COMPLETED record write the ledger: start_cutting,         *)
(* complete_cutting, start_sewing, complete_sewing, start_ironing and the  *)
(* revert of a record in any other state return the ledger as they found   *)
(* it, and start_cutting on an IRONING/COMPLETED record resets the record  *)
(* and debits nothing.                                                     *)
LedgerKept(out) == out.inventory = inventory

C34_OnlyCompletionWritesLedger ==
    /\ \A tracking_id \in TrackingIds \cup {NONE}, design_id \in DesignIds \cup {NONE} :
         \A existing \in TrackingQueryResults(tracking, design_id) :
           LedgerKept(start_cutting(designs, tracking, inventory,
                                     tracking_id, design_id, existing))
    /\ \A tracking_id \in TrackingIds \cup {NONE} :
         /\ LedgerKept(complete_cutting(tracking, inventory, tracking_id))
         /\ LedgerKept(start_sewing(tracking, inventory, tracking_id))
         /\ LedgerKept(complete_sewing(tracking, inventory, tracking_id))
         /\ LedgerKept(start_ironing(tracking, inventory, tracking_id))
         /\ \A access_level \in AccessLevel :
              \/ /\ tracking_id \in DOMAIN tracking
                 /\ AtStage(tracking[tracking_id], IRONING, COMPLETED)
              \/ LedgerKept(revert(designs, tracking, inventory, tracking_id, access_level))
    /\ \A tracking_id \in DOMAIN tracking :
         AtStage(tracking[tracking_id], IRONING, COMPLETED)
           => LET out == start_cutting(designs, tracking, inventory, tracking_id, NONE, NONE)
              IN /\ out.status = 200
                 /\ AtStage(out.tracking[tracking_id], CUTTING, IN_PROGRESS)
                 /\ LedgerKept(out)

\* a record reset by start_cutting after its completion and taken to ironing
\* again, the units of the completion still in the ledger
C34_Witness ==
    \E tracking_id \in DOMAIN tracking :
        /\ AtStage(tracking[tracking_id], IRONING, IN_PROGRESS)
        /\ Qty(inventory, tracking[tracking_id].design_id, "S") = 2
        /\ sales = EmptyDict

---------------------------------------------------------------------------
(* C35: with calls run one at a time, every stage of every tracking record *)
(* has the timestamps of its sub-status: PENDING neither arrived_at nor    *)
(* completed_at, IN_PROGRESS arrived_at only, COMPLETED both; and the      *)
(* record's own completed_at is set exactly when the overview is           *)
(* IRONING/COMPLETED.                                                      *)
TimestampsAgree(stage_state) ==
    /\ stage_state.status = PENDING
         => stage_state.arrived_at = NULL /\ stage_state.completed_at = NULL
    /\ stage_state.status = IN_PROGRESS
         => stage_state.arrived_at # NULL /\ stage_state.completed_at = NULL
    /\ stage_state.status = COMPLETED
         => stage_state.arrived_at # NULL /\ stage_state.completed_at # NULL

C35_TimestampsFollowStatus ==
    \A tracking_id \in DOMAIN tracking :
        LET record == tracking[tracking_id]
        IN /\ \A i \in DOMAIN STAGE_SEQUENCE :
                TimestampsAgree(record.stages[STAGE_SEQUENCE[i]])
           /\ record.completed_at # NULL <=> AtStage(record, IRONING, COMPLETED)

\* a record completed at ironing, reverted to sewing and started again
C35_Witness ==
    \E tracking_id \in DOMAIN tracking :
        /\ AtStage(tracking[tracking_id], SEWING, IN_PROGRESS)
        /\ tracking[tracking_id].design_id \in DOMAIN inventory
        /\ Qty(inventory, tracking[tracking_id].design_id, "S") = 0
        /\ sales = EmptyDict

---------------------------------------------------------------------------
(* C36: from every tracking record some sequence of stage operations       *)
(* brings the record to IRONING/COMPLETED; the revert of a record at       *)
(* SEWING leaves it at CUTTING/PENDING with the cutting sub-status         *)
(* PENDING, and in that state every stage operation but start_cutting is   *)
(* rejected without a write, while start_cutting succeeds.                 *)

\* the records after start_cutting and the five operations that follow it
ThroughAllStages(trk, tracking_id) ==
    LET started == start_cutting(designs, trk, inventory, tracking_id, NONE, NONE).tracking
        cut == complete_cutting(started, inventory, tracking_id).tracking
        sewing == start_sewing(cut, inventory, tracking_id).tracking
        sewn == complete_sewing(sewing, inventory, tracking_id).tracking
        ironing == start_ironing(sewn, inventory, tracking_id).tracking
    IN complete_ironing(designs, ironing, inventory, tracking_id).tracking

\* the operations that lead on from the record without a reset
RECURSIVE Onward(_, _, _)
Onward(trk, tracking_id, steps) ==
    IF steps = 0 \/ AtStage(trk[tracking_id], IRONING, COMPLETED) THEN trk
    ELSE LET outs == {complete_cutting(trk, inventory, tracking_id),
                      start_sewing(trk, inventory, tracking_id),
                      complete_sewing(trk, inventory, tracking_id),
                      start_ironing(trk, inventory, tracking_id),
                      complete_ironing(designs, trk, inventory, tracking_id)}
             moved == {out \in outs : out.tracking # trk}
         IN IF moved = {} THEN trk
            ELSE Onward((CHOOSE out \in moved : TRUE).tracking, tracking_id, steps - 1)

CuttingNotStarted(record) ==
    AtStage(record, CUTTING, PENDING) /\ record.stages.cutting.status = PENDING

C36_CompletionReachable ==
    \A tracking_id \in DOMAIN tracking :
        LET record == tracking[tracking_id]
        IN /\ AtStage(ThroughAllStages(tracking, tracking_id)[tracking_id],
                      IRONING, COMPLETED)
           /\ ~CuttingNotStarted(record)
                => AtStage(Onward(tracking, tracking_id, 5)[tracking_id],
                           IRONING, COMPLETED)
           /\ record.stage = SEWING
                => LET out == revert(designs, tracking, inventory, tracking_id, LEVEL_2)
                   IN /\ out.status = 200
                      /\ CuttingNotStarted(out.tracking[tracking_id])
           /\ CuttingNotStarted(record)
                => /\ \A out \in {complete_cutting(tracking, inventory, tracking_id),
                                   start_sewing(tracking, inventory, tracking_id),
                                   complete_sewing(tracking, inventory, tracking_id),
                                   start_ironing(tracking, inventory, tracking_id),
                                   complete_ironing(designs, tracking, inventory, tracking_id),
                                   revert(designs, tracking, inventory, tracking_id, LEVEL_2)} :
                        out = ProductionOutcome(400, tracking, inventory)
                   /\ LET out == start_cutting(designs, tracking, inventory,
                                                tracking_id, NONE, NONE)
                      IN /\ out.status = 200
                         /\ AtStage(out.tracking[tracking_id], CUTTING, IN_PROGRESS)
                   /\ Onward(tracking, tracking_id, 5) = tracking

\* the record a revert from the sewing stage has left
C36_Witness ==
    \E tracking_id \in DOMAIN tracking : CuttingNotStarted(tracking[tracking_id])

---------------------------------------------------------------------------
(* Stage calls of several threads on one store                             *)
(*                                                                         *)
(* A stage call reads the tracking record, checks it, and writes the       *)
(* fields its update names to the document as it is then; the calls of     *)
(* other threads run between the read and the write.                       *)

\* START_CUTTING, doc_ref.update: the reset of an existing record
start_cutting_update(trk, doc_ref) ==
    [trk EXCEPT ![doc_ref].stage = CUTTING,
                ![doc_ref].status = IN_PROGRESS,
                ![doc_ref].arrived_at = TS,
                ![doc_ref].completed_at = NULL,
                ![doc_ref].stages.cutting = StageState(IN_PROGRESS, TS, NULL),
                ![doc_ref].stages.sewing = StageState(PENDING, NULL, NULL),
                ![doc_ref].stages.ironing = StageState(PENDING, NULL, NULL)]

\* START_CUTTING, tracking_data: the record of a design that had none
start_cutting_record(design_id) ==
    [design_id |-> design_id,
     stage |-> CUTTING,
     status |-> IN_PROGRESS,
     stages |-> _default_stage_payload,
     arrived_at |-> TS,
     completed_at |-> NULL]

\* COMPLETE_CUTTING, doc_ref.update
complete_cutting_update(trk, tracking_id) ==
    [trk EXCEPT ![tracking_id].stage = SEWING,
                ![tracking_id].status = PENDING,
                ![tracking_id].arrived_at = NULL,
                ![tracking_id].completed_at = NULL,
                ![tracking_id].stages.cutting.status = COMPLETED,
                ![tracking_id].stages.cutting.completed_at = TS,
                ![tracking_id].stages.sewing = StageState(PENDING, NULL, NULL)]

\* START_SEWING, doc_ref.update
start_sewing_update(trk, tracking_id) ==
    [trk EXCEPT ![tracking_id].stage = SEWING,
                ![tracking_id].status = IN_PROGRESS,
                ![tracking_id].arrived_at = TS,
                ![tracking_id].completed_at = NULL,
                ![tracking_id].stages.sewing.status = IN_PROGRESS,
                ![tracking_id].stages.sewing.arrived_at = TS]

\* COMPLETE_SEWING, doc_ref.update
complete_sewing_update(trk, tracking_id) ==
    [trk EXCEPT ![tracking_id].stage = IRONING,
                ![tracking_id].status = PENDING,
                ![tracking_id].arrived_at = NULL,
                ![tracking_id].completed_at = NULL,
                ![tracking_id].stages.sewing.status = COMPLETED,
                ![tracking_id].stages.sewing.completed_at = TS,
                ![tracking_id].stages.ironing = StageState(PENDING, NULL, NULL)]

\* START_IRONING, doc_ref.update
start_ironing_update(trk, tracking_id) ==
    [trk EXCEPT ![tracking_id].stage = IRONING,
                ![tracking_id].status = IN_PROGRESS,
                ![tracking_id].arrived_at = TS,
                ![tracking_id].completed_at = NULL,
                ![tracking_id].stages.ironing.status = IN_PROGRESS,
                ![tracking_id].stages.ironing.arrived_at = TS]

\* START_CUTTING: the record by tracking_id, or the design and the lookup of
\* its record, and the checks
StartCuttingLookup(c) ==
    \E tracking_id \in TrackingIds \cup {NONE}, design_id \in DesignIds \cup {NONE} :
      \E existing \in TrackingQueryResults(tracking, design_id) :
        LET doc_ref == IF tracking_id # NONE THEN tracking_id ELSE existing
        IN /\ calls[c].pc = "idle"
           /\ start_cutting(designs, tracking, inventory,
                            tracking_id, design_id, existing).status = 200
           /\ Goto(c, [Idle EXCEPT !.op = "start_cutting",
                                   !.pc = IF doc_ref # NONE THEN "reset" ELSE "create",
                                   !.tracking_id = doc_ref,
                                   !.payload = <<design_id>>])
           /\ UNCHANGED <<designs, tracking, inventory, sales, produced>>

\* START_CUTTING: doc_ref.update of the record found, and the return
StartCuttingReset(c) ==
    /\ calls[c].op = "start_cutting"
    /\ calls[c].pc = "reset"
    /\ tracking' = start_cutting_update(tracking, calls[c].tracking_id)
    /\ Goto(c, [calls[c] EXCEPT !.pc = "done", !.status = 200])
    /\ UNCHANGED <<designs, inventory, sales, produced>>

\* START_CUTTING: doc_ref.set of a new document, and the return
StartCuttingCreate(c) ==
    /\ calls[c].op = "start_cutting"
    /\ calls[c].pc = "create"
    /\ tracking' = Put(tracking, NewTrackingId(tracking),
                       start_cutting_record(calls[c].payload[1]))
    /\ Goto(c, [calls[c] EXCEPT !.pc = "done", !.status = 200])
    /\ UNCHANGED <<designs, inventory, sales, produced>>

\* the stage operations that read the record, check it and update it
StageSteps == {"complete_cutting", "start_sewing", "complete_sewing", "start_ironing"}

\* the outcome of the checks of a stage operation on the record read
stage_checks(op, trk, inv, tracking_id) ==
    CASE op = "complete_cutting" -> complete_cutting(trk, inv, tracking_id).status
      [] op = "start_sewing" -> start_sewing(trk, inv, tracking_id).status
      [] op = "complete_sewing" -> complete_sewing(trk, inv, tracking_id).status
      [] op = "start_ironing" -> start_ironing(trk, inv, tracking_id).status

\* the doc_ref.update of a stage operation
stage_update(op, trk, tracking_id) ==
    CASE op = "complete_cutting" -> complete_cutting_update(trk, tracking_id)
      [] op = "start_sewing" -> start_sewing_update(trk, tracking_id)
      [] op = "complete_sewing" -> complete_sewing_update(trk, tracking_id)
      [] op = "start_ironing" -> start_ironing_update(trk, tracking_id)

\* COMPLETE_CUTTING, START_SEWING, COMPLETE_SEWING, START_IRONING:
\* doc_ref.get() and the checks
StageRead(c) ==
    \E op \in StageSteps, tracking_id \in DOMAIN tracking :
      /\ calls[c].pc = "idle"
      /\ stage_checks(op, tracking, inventory, tracking_id) = 200
      /\ Goto(c, [Idle EXCEPT !.op = op, !.pc = "update",
                              !.tracking_id = tracking_id])
      /\ UNCHANGED <<designs, tracking, inventory, sales, produced>>

\* COMPLETE_CUTTING, START_SEWING, COMPLETE_SEWING, START_IRONING:
\* doc_ref.update and the return
StageUpdate(c) ==
    /\ calls[c].op \in StageSteps
    /\ calls[c].pc = "update"
    /\ tracking' = stage_update(calls[c].op, tracking, calls[c].tracking_id)
    /\ Goto(c, [calls[c] EXCEPT !.pc = "done", !.status = 200])
    /\ UNCHANGED <<designs, inventory, sales, produced>>

\* DELETE by a LEVEL_2 caller: doc_ref.get() and the checks of the stage and
\* of the previous stage
RevertRead(c) ==
    \E tracking_id \in DOMAIN tracking :
      LET tracking_data == tracking[tracking_id]
          current_key == tracking_data.stage
          current_index == StageIndex(current_key)
          previous_key == StageAt(current_index - 1)
      IN /\ calls[c].pc = "idle"
         /\ ~at_first_stage(current_index)
         /\ tracking_data.stages[previous_key].status # PENDING
         /\ Goto(c, [Idle EXCEPT !.op = "revert",
                       !.pc = IF ironing_completed(current_key,
                                    tracking_data.stages[current_key],
                                    tracking_data.design_id)
                                THEN "read_inventory" ELSE "update",
                       !.tracking_id = tracking_id,
                       !.payload = <<previous_key, current_key>>])
         /\ UNCHANGED <<designs, tracking, inventory, sales, produced>>

\* DELETE, _adjust_inventory: the size map, doc_ref.get() and the checks; an
\* error ends the call, and with no size to debit the update comes next
RevertReadInventory(c) ==
    LET design_id == tracking[calls[c].tracking_id].design_id
        snapshot == Snapshot(inventory, design_id)
        debit == _adjust_inventory(designs, snapshot, design_id, -1)
    IN /\ calls[c].op = "revert"
       /\ calls[c].pc = "read_inventory"
       /\ Goto(c, [calls[c] EXCEPT
                     !.pc = IF debit.status # 200 THEN "done"
                            ELSE IF _adjust_inventory_writes(designs, snapshot,
                                                             design_id, -1) = <<>>
                              THEN "update"
                            ELSE "write_inventory",
                     !.status = IF debit.status # 200 THEN debit.status ELSE 0,
                     !.inventory = snapshot])
       /\ UNCHANGED <<designs, tracking, inventory, sales, produced>>

\* DELETE, _adjust_inventory: doc_ref.update
RevertWriteInventory(c) ==
    /\ calls[c].op = "revert"
    /\ calls[c].pc = "write_inventory"
    /\ inventory' = _adjust_inventory_update(designs, inventory, calls[c].inventory,
                        tracking[calls[c].tracking_id].design_id, -1)
    /\ Goto(c, [calls[c] EXCEPT !.pc = "update"])
    /\ UNCHANGED <<designs, tracking, sales, produced>>

\* DELETE: doc_ref.update with the stage keys of the record read, and the
\* return
RevertUpdate(c) ==
    /\ calls[c].op = "revert"
    /\ calls[c].pc = "update"
    /\ tracking' = revert_updates(tracking, calls[c].tracking_id,
                                  calls[c].payload[1], calls[c].payload[2])
    /\ Goto(c, [calls[c] EXCEPT !.pc = "done", !.status = 200])
    /\ UNCHANGED <<designs, inventory, sales, produced>>

\* the states a record passes from START_CUTTING to COMPLETE_IRONING, and
\* the one a revert from sewing leaves
LifecycleRecords(design_id) ==
    LET id == "t1"
        started == [t \in {id} |-> start_cutting_record(design_id)]
        cut == complete_cutting_update(started, id)
        sewing == start_sewing_update(cut, id)
        sewn == complete_sewing_update(sewing, id)
        ironing == start_ironing_update(sewn, id)
        ironed == complete_ironing_update(ironing, id)
        reverted == revert_updates(cut, id, CUTTING, SEWING)
    IN {started, cut, sewing, sewn, ironing, ironed, reverted}

\* the calls start on a store without a tracking record or with one record
\* somewhere on its way
InitStages ==
    /\ designs \in [DesignIds -> [size_distribution : SizeDistributions]]
    /\ tracking \in {EmptyDict} \cup UNION {LifecycleRecords(design_id) : design_id \in DesignIds}
    /\ inventory \in LedgerSamples
    /\ sales = EmptyDict
    /\ calls = [c \in Callers |-> Idle]
    /\ produced = NothingProduced

NextStages ==
    \/ \E c \in Callers : StartCuttingLookup(c)
    \/ \E c \in Callers : StartCuttingReset(c)
    \/ \E c \in Callers : StartCuttingCreate(c)
    \/ \E c \in Callers : StageRead(c)
    \/ \E c \in Callers : StageUpdate(c)
    \/ \E c \in Callers : CompleteIroningRead(c)
    \/ \E c \in Callers : CompleteIroningWriteTracking(c)
    \/ \E c \in Callers : CompleteIroningReadInventory(c)
    \/ \E c \in Callers : CompleteIroningWriteInventory(c)
    \/ \E c \in Callers : RevertRead(c)
    \/ \E c \in Callers : RevertReadInventory(c)
    \/ \E c \in Callers : RevertWriteInventory(c)
    \/ \E c \in Callers : RevertUpdate(c)

SpecStages == InitStages /\ [][NextStages]_vars

(* C31: the stages before the overview stage are COMPLETED, those after it *)
(* PENDING, and the overview status is the sub-status of the overview      *)
(* stage, in every record and also while a stage transition and a revert,  *)
(* or two stage transitions, of the same record run interleaved, each      *)
(* writing its fields in one partial update.                               *)
StagesFollowOverview(record) ==
    /\ record.stages[record.stage].status = record.status
    /\ \A i \in DOMAIN STAGE_SEQUENCE :
         /\ i - 1 < StageIndex(record.stage)
              => record.stages[STAGE_SEQUENCE[i]].status = COMPLETED
         /\ i - 1 > StageIndex(record.stage)
              => record.stages[STAGE_SEQUENCE[i]].status = PENDING

C31_StagesFollowOverviewInterleaved ==
    \A tracking_id \in DOMAIN tracking : StagesFollowOverview(tracking[tracking_id])

(* C32: there is at most one tracking record for a design_id, also after   *)
(* two start_cutting calls for a design without a record, the lookup of    *)
(* the one between the lookup and the creation of the other.               *)
C32_OneRecordPerDesignInterleaved ==
    \A design_id \in DesignIds :
        Cardinality(_get_tracking_by_design(tracking, design_id)) <= 1

====
